---- MODULE Spec2Model ----
(***************************************************************************)
(* Timesheet consolidation service: employee-name resolution (fuzzy        *)
(* matching with a confirmation round trip) and weekly overtime            *)
(* allocation, as implemented by the Express server (server/routes.ts)     *)
(* and by the Next.js routes (app/api/process-timesheets and               *)
(* app/api/processing-results).                                            *)
(*                                                                         *)
(* Encoding.  Names are TLA+ strings; NameText gives the characters of    *)
(* each name so that the matcher works on the text.  Scores are kept in    *)
(* hundredths of a percent (9171 is 91.71%).  Dates are day numbers, day 0 *)
(* being the Monday the site sheet is anchored to.  Hours are integers.    *)
(***************************************************************************)
EXTENDS Integers, Sequences, FiniteSets, TLC

(***************************************************************************)
(* Text                                                                    *)
(***************************************************************************)
UpperLetters == <<"A","B","C","D","E","F","G","H","I","J","K","L","M",
                  "N","O","P","Q","R","S","T","U","V","W","X","Y","Z">>

LowerLetters == <<"a","b","c","d","e","f","g","h","i","j","k","l","m",
                  "n","o","p","q","r","s","t","u","v","w","x","y","z">>

Digits == {"0","1","2","3","4","5","6","7","8","9"}

Range(s) == {s[i] : i \in DOMAIN s}

\* String.prototype.toLowerCase, one character
toLowerCase(c) ==
  IF \E i \in DOMAIN UpperLetters : UpperLetters[i] = c
    THEN LowerLetters[CHOOSE i \in DOMAIN UpperLetters : UpperLetters[i] = c]
    ELSE c

\* the regular-expression class \s
IsSpace(c) == c \in {" ", "\t"}

\* the regular-expression class \w
IsWord(c) == c \in Range(UpperLetters) \cup Range(LowerLetters) \cup Digits \cup {"_"}

MapSeq(s, Op(_)) == [i \in DOMAIN s |-> Op(s[i])]

RECURSIVE trimStart(_)
trimStart(s) ==
  IF s # <<>> /\ IsSpace(Head(s)) THEN trimStart(Tail(s)) ELSE s

RECURSIVE trimEnd(_)
trimEnd(s) ==
  IF s # <<>> /\ IsSpace(s[Len(s)]) THEN trimEnd(SubSeq(s, 1, Len(s) - 1)) ELSE s

\* String.prototype.trim
trim(s) == trimEnd(trimStart(s))

\* replace(/[^\w\s]/g, '')
RECURSIVE removePunctuation(_)
removePunctuation(s) ==
  IF s = <<>> THEN <<>>
  ELSE IF IsWord(Head(s)) \/ IsSpace(Head(s))
         THEN <<Head(s)>> \o removePunctuation(Tail(s))
         ELSE removePunctuation(Tail(s))

\* replace(/\s+/g, ' ')
RECURSIVE collapseSpaces(_)
collapseSpaces(s) ==
  IF s = <<>> THEN <<>>
  ELSE IF IsSpace(Head(s))
         THEN <<" ">> \o collapseSpaces(trimStart(s))
         ELSE <<Head(s)>> \o collapseSpaces(Tail(s))

normalizeString(s) ==
  collapseSpaces(removePunctuation(trim(MapSeq(s, toLowerCase))))

Min2(a, b) == IF a <= b THEN a ELSE b
Max2(a, b) == IF a >= b THEN a ELSE b

\* One row of the edit-distance matrix: row i from row i-1 (prev), for the
\* character ch = str2[i-1]; acc holds the cells of the row built so far.
RECURSIVE levRow(_, _, _, _)
levRow(prev, ch, str1, acc) ==
  LET j == Len(acc)
  IN IF j > Len(str1) THEN acc
     ELSE levRow(prev, ch, str1,
            Append(acc,
              IF ch = str1[j]
                THEN prev[j]
                ELSE Min2(prev[j] + 1, Min2(acc[j] + 1, prev[j + 1] + 1))))

\* The matrix, row by row: matrix[i + 1] is the row of str2's first i
\* characters.
RECURSIVE levMatrix(_, _, _)
levMatrix(matrix, str1, str2) ==
  LET i == Len(matrix)
  IN IF i > Len(str2) THEN matrix
     ELSE levMatrix(Append(matrix, levRow(matrix[i], str2[i], str1, <<i>>)), str1, str2)

levenshteinDistance(str1, str2) ==
  levMatrix(<<[j \in 1..(Len(str1) + 1) |-> j - 1]>>, str1, str2)[Len(str2) + 1][Len(str1) + 1]

\* Similarities are fractions <<numerator, denominator>>.
levenshteinSimilarity(str1, str2) ==
  LET maxLength == Max2(Len(str1), Len(str2))
  IN IF maxLength = 0 THEN <<1, 1>>
     ELSE <<maxLength - levenshteinDistance(str1, str2), maxLength>>

jaccardSimilarity(str1, str2) ==
  LET set1 == Range(str1)
      set2 == Range(str2)
      union == set1 \cup set2
  IN IF union = {} THEN <<0, 1>>
     ELSE <<Cardinality(set1 \cap set2), Cardinality(union)>>

\* split(/\s+/).filter(w => w.length > 0)
RECURSIVE splitWords(_, _, _)
splitWords(s, cur, acc) ==
  IF s = <<>> THEN (IF cur = <<>> THEN acc ELSE Append(acc, cur))
  ELSE IF IsSpace(Head(s))
         THEN splitWords(Tail(s), <<>>, IF cur = <<>> THEN acc ELSE Append(acc, cur))
         ELSE splitWords(Tail(s), Append(cur, Head(s)), acc)

\* String.prototype.includes
includes(s, sub) ==
  \E i \in 0..(Len(s) - Len(sub)) : SubSeq(s, i + 1, i + Len(sub)) = sub

wordsMatch(word1, word2) ==
  LET ls == levenshteinSimilarity(word1, word2)
  IN \/ word1 = word2
     \/ includes(word1, word2)
     \/ includes(word2, word1)
     \/ ls[1] * 10 > 8 * ls[2]

\* The greedy pairing: each word of words1 takes the first unused word of
\* words2 it matches.
RECURSIVE countWordMatches(_, _, _)
countWordMatches(words1, words2, used) ==
  IF words1 = <<>> THEN 0
  ELSE LET cand == {i \in DOMAIN words2 : i \notin used /\ wordsMatch(Head(words1), words2[i])}
       IN IF cand = {} THEN countWordMatches(Tail(words1), words2, used)
          ELSE LET i == CHOOSE k \in cand : \A m \in cand : k <= m
               IN 1 + countWordMatches(Tail(words1), words2, used \cup {i})

wordSimilarity(str1, str2) ==
  LET words1 == splitWords(str1, <<>>, <<>>)
      words2 == splitWords(str2, <<>>, <<>>)
  IN IF words1 = <<>> /\ words2 = <<>> THEN <<1, 1>>
     ELSE IF words1 = <<>> \/ words2 = <<>> THEN <<0, 1>>
     ELSE <<countWordMatches(words1, words2, {}), Max2(Len(words1), Len(words2))>>

\* Weights of the three algorithms, in tenths.
LevenshteinWeight == 4
JaccardWeight == 3
WordWeight == 3

\* calculateSimilarity: the weighted average of the enabled algorithms,
\* rounded to two decimals; 0 when none is enabled.
calculateSimilarity(str1, str2, enabled) ==
  IF str1 = str2 THEN 10000
  ELSE
    LET lev == IF enabled.levenshtein THEN levenshteinSimilarity(str1, str2) ELSE <<0, 1>>
        jac == IF enabled.jaccard THEN jaccardSimilarity(str1, str2) ELSE <<0, 1>>
        wrd == IF enabled.wordLevel THEN wordSimilarity(str1, str2) ELSE <<0, 1>>
        totalWeight == (IF enabled.levenshtein THEN LevenshteinWeight ELSE 0)
                     + (IF enabled.jaccard THEN JaccardWeight ELSE 0)
                     + (IF enabled.wordLevel THEN WordWeight ELSE 0)
        den == lev[2] * jac[2] * wrd[2]
        num == (IF enabled.levenshtein THEN LevenshteinWeight * lev[1] * jac[2] * wrd[2] ELSE 0)
             + (IF enabled.jaccard THEN JaccardWeight * jac[1] * lev[2] * wrd[2] ELSE 0)
             + (IF enabled.wordLevel THEN WordWeight * wrd[1] * lev[2] * jac[2] ELSE 0)
    IN IF totalWeight > 0
         THEN (2 * 10000 * num + totalWeight * den) \div (2 * totalWeight * den)
         ELSE 0

(***************************************************************************)
(* Names                                                                   *)
(***************************************************************************)
\* JavaScript null / undefined
null == "<null>"

\* server/routes.ts: the registry of the Express server; the same list is
\* installed by app/api/processing-results/route.ts when that module loads
KNOWN_EMPLOYEES ==
  <<"Charlotte Danes", "Chelsea Serati", "Jack Allan",
    "Andrew Dwyer", "Pamela Beesly", "Dwight K Schrute">>

VALID_REGIONS == <<"Eastside", "South", "North">>

\* The name cells that occur in the uploaded sheets (already trimmed):
\* an exact name, a near miss scoring above 90, one scoring between 70 and
\* 90, and a caption that is not a name.
InputNames == {"Jack Allan", "Jack Alla", "Jack Alan", "Week 1"}

\* The characters of every name the model uses.
NameText ==
     ("Charlotte Danes" :> <<"C","h","a","r","l","o","t","t","e"," ","D","a","n","e","s">>)
  @@ ("Chelsea Serati" :> <<"C","h","e","l","s","e","a"," ","S","e","r","a","t","i">>)
  @@ ("Jack Allan" :> <<"J","a","c","k"," ","A","l","l","a","n">>)
  @@ ("Andrew Dwyer" :> <<"A","n","d","r","e","w"," ","D","w","y","e","r">>)
  @@ ("Pamela Beesly" :> <<"P","a","m","e","l","a"," ","B","e","e","s","l","y">>)
  @@ ("Dwight K Schrute" :> <<"D","w","i","g","h","t"," ","K"," ","S","c","h","r","u","t","e">>)
  @@ ("Jack Alla" :> <<"J","a","c","k"," ","A","l","l","a">>)
  @@ ("Jack Alan" :> <<"J","a","c","k"," ","A","l","a","n">>)
  @@ ("Jon Allan" :> <<"J","o","n"," ","A","l","l","a","n">>)
  @@ ("Week 1" :> <<"W","e","e","k"," ","1">>)
  @@ ("JACK ALLAN" :> <<"J","A","C","K"," ","A","L","L","A","N">>)
  @@ ("Jack Allan." :> <<"J","a","c","k"," ","A","l","l","a","n",".">>)
  @@ (" jack  allan " :> <<" ","j","a","c","k"," "," ","a","l","l","a","n"," ">>)
  @@ ("! Jack Allan" :> <<"!"," ","J","a","c","k"," ","A","l","l","a","n">>)
  @@ ("   " :> <<" "," "," ">>)

\* settings-manager: DefaultSettings.validation
DefaultSettings ==
  [fuzzyMatchThresholds |-> [high |-> 9000, medium |-> 7000, low |-> 5000],
   enabledAlgorithms |-> [levenshtein |-> TRUE, jaccard |-> TRUE, wordLevel |-> TRUE],
   maxSuggestions |-> 5]

\* An automatic acceptance five points too early.
EarlyAutoAccept == 90 * 100

\* The score from which a match is adopted without confirmation.
AutoAcceptScore == 9500

\* A confirmation floor ten points too low.
LowSuggestionFloor == 60 * 100

\* The score from which a suggestion is worth a confirmation request.
StrongSuggestionScore == 7000

\* EnhancedFuzzyMatcher.constructor: the configuration captured when the
\* matcher singleton is built
FuzzyMatchConfig ==
  [threshold |-> DefaultSettings.fuzzyMatchThresholds.high,
   cutoff |-> DefaultSettings.fuzzyMatchThresholds.low,
   max_suggestions |-> 5]

\* The scores left in the order of the registry.
unsortedScores(s) == s

\* Array.prototype.sort((a, b) => b.score - a.score): stable, descending
RECURSIVE insertByScore(_, _)
insertByScore(sorted, x) ==
  IF sorted = <<>> THEN <<x>>
  ELSE IF Head(sorted).score >= x.score
         THEN <<Head(sorted)>> \o insertByScore(Tail(sorted), x)
         ELSE <<x>> \o sorted

RECURSIVE sortByScore(_)
sortByScore(s) ==
  IF s = <<>> THEN <<>>
  ELSE insertByScore(sortByScore(SubSeq(s, 1, Len(s) - 1)), s[Len(s)])

RECURSIVE scoreCandidates(_, _, _, _)
scoreCandidates(normalizedInput, candidates, cutoff, enabled) ==
  IF candidates = <<>> THEN <<>>
  ELSE LET score == calculateSimilarity(normalizedInput,
                      normalizeString(NameText[Head(candidates)]), enabled)
           rest == scoreCandidates(normalizedInput, Tail(candidates), cutoff, enabled)
       IN IF score >= cutoff
            THEN <<[name |-> Head(candidates), score |-> score]>> \o rest
            ELSE rest

\* EnhancedFuzzyMatcher.findMatches, from the sorted scores on: the cut to
\* max_suggestions and the chain of threshold tests
classifyScores(input, scores, config, thresholds) ==
  LET suggestions == SubSeq(scores, 1, Min2(Len(scores), config.max_suggestions))
      best == IF scores = <<>> THEN 0 ELSE scores[1].score
      tier == IF scores = <<>> THEN "none"
              ELSE IF best >= AutoAcceptScore THEN "auto"
              ELSE IF best >= thresholds.high THEN "high"
              ELSE IF best >= thresholds.medium THEN "medium"
              ELSE IF best >= thresholds.low THEN "low"
              ELSE "below"
  IN [input_name |-> input,
      matched_name |->
        IF tier \in {"auto", "high", "medium"} THEN scores[1].name ELSE null,
      confidence |->
        IF tier \in {"auto", "high"} THEN "HIGH"
        ELSE IF tier = "medium" THEN "MEDIUM"
        ELSE IF tier = "low" THEN "LOW"
        ELSE "NO_MATCH",
      confidence_score |-> best,
      suggestions |-> suggestions,
      requires_confirmation |-> tier # "auto"]

\* EnhancedFuzzyMatcher.findMatches
findMatches(input, candidates, config, thresholds, enabled) ==
  IF trim(NameText[input]) = <<>>
    THEN [input_name |-> input, matched_name |-> null, confidence |-> "NO_MATCH",
          confidence_score |-> 0, suggestions |-> <<>>, requires_confirmation |-> TRUE]
    ELSE classifyScores(input,
                        sortByScore(scoreCandidates(normalizeString(NameText[input]),
                                                    candidates, config.cutoff, enabled)),
                        config, thresholds)

\* EmployeeValidator.validateEmployee
validateEmployee(employeeName, knownEmployees) ==
  IF trim(NameText[employeeName]) = <<>>
    THEN [input_name |-> employeeName, matched_name |-> null, confidence |-> "NO_MATCH",
          confidence_score |-> 0, suggestions |-> <<>>, requires_confirmation |-> TRUE]
    ELSE findMatches(employeeName, knownEmployees, FuzzyMatchConfig,
                     DefaultSettings.fuzzyMatchThresholds,
                     DefaultSettings.enabledAlgorithms)

(***************************************************************************)
(* Validation results and the region validator                             *)
(***************************************************************************)
\* new ValidationResultBuilder()
NewResult ==
  [status |-> "SUCCESS", errors |-> <<>>, warnings |-> <<>>, validated_items |-> 0,
   metadata |-> <<>>]

\* The line number of an error raised without one.
NoLine == 0

\* An error or warning record: its type and line number.
Issue(errorType, lineNumber) == [error_type |-> errorType, line_number |-> lineNumber]

\* ValidationResultBuilder.addError
addError(result, issue) ==
  [result EXCEPT !.errors = Append(@, issue),
                 !.status = IF @ = "SUCCESS" THEN "FAILED" ELSE @]

\* ValidationResultBuilder.addWarning
addWarning(result, issue) ==
  [result EXCEPT !.warnings = Append(@, issue),
                 !.status = IF @ = "SUCCESS" THEN "WARNING" ELSE @]

\* ValidationResultBuilder.setValidatedItems
setValidatedItems(result, count) == [result EXCEPT !.validated_items = count]

\* The characters of the region names the validator is called with.
RegionText ==
  [r \in {"Eastside", "South", "North", " North ", "Nort", "   "} |->
     CASE r = "Eastside" -> <<"E","a","s","t","s","i","d","e">>
       [] r = "South"    -> <<"S","o","u","t","h">>
       [] r = "North"    -> <<"N","o","r","t","h">>
       [] r = " North "  -> <<" ","N","o","r","t","h"," ">>
       [] r = "Nort"     -> <<"N","o","r","t">>
       [] r = "   "      -> <<" "," "," ">>]

\* The UTF-16 code units of the characters in use, in ascending order.
CodeUnitOrder == <<" ">> \o UpperLetters \o LowerLetters

codeUnit(c) == CHOOSE i \in DOMAIN CodeUnitOrder : CodeUnitOrder[i] = c

\* a < b as Array.prototype.sort() without a comparator orders strings
RECURSIVE textBefore(_, _)
textBefore(a, b) ==
  IF b = <<>> THEN FALSE
  ELSE IF a = <<>> THEN TRUE
  ELSE IF Head(a) # Head(b) THEN codeUnit(Head(a)) < codeUnit(Head(b))
  ELSE textBefore(Tail(a), Tail(b))

\* Array.from(regions).sort()
RECURSIVE sortRegions(_)
sortRegions(regions) ==
  IF regions = {} THEN <<>>
  ELSE LET first == CHOOSE r \in regions :
                      \A q \in regions \ {r} : textBefore(RegionText[r], RegionText[q])
       IN <<first>> \o sortRegions(regions \ {first})

\* Map.prototype.set on regionCache
cacheSet(cache, key, value) ==
  [k \in DOMAIN cache \cup {key} |-> IF k = key THEN value ELSE cache[k]]

\* RegionValidator.validateRegion: the result and the cache it leaves
validateRegion(xero, cache, regionName, lineNumber) ==
  LET builder == setValidatedItems(NewResult, 1)
      normalizedRegion == trim(RegionText[regionName])
      invalid == addError(builder, Issue("INVALID_REGION", lineNumber))
  IN IF normalizedRegion = <<>>
       THEN [result |-> addError(builder, Issue("EMPTY_REGION", lineNumber)),
             cache |-> cache]
     ELSE IF normalizedRegion \in DOMAIN cache
       THEN [result |-> IF cache[normalizedRegion] THEN builder ELSE invalid,
             cache |-> cache]
     ELSE IF xero = {}
       THEN [result |-> addError(builder, Issue("NO_XERO_REGIONS", NoLine)),
             cache |-> cache]
     ELSE [result |-> IF normalizedRegion \in xero THEN builder ELSE invalid,
           cache |-> cacheSet(cache, normalizedRegion, normalizedRegion \in xero)]

\* result.errors.forEach(... builder.addError ...), and the same for warnings
RECURSIVE mergeIssues(_, _, _)
mergeIssues(result, issues, isError) ==
  IF issues = <<>> THEN result
  ELSE mergeIssues(IF isError THEN addError(result, Head(issues))
                              ELSE addWarning(result, Head(issues)),
                   Tail(issues), isError)

\* RegionValidator.isRegionValid
isRegionValid(result) == result.status = "SUCCESS" /\ result.errors = <<>>

\* The loop of RegionValidator.validateRegions over the sorted regions
RECURSIVE validateEach(_, _, _, _, _, _)
validateEach(xero, cache, sorted, lineNumber, builder, invalidRegions) ==
  IF sorted = <<>>
    THEN [result |-> builder, cache |-> cache, invalidRegions |-> invalidRegions]
  ELSE LET v == validateRegion(xero, cache, Head(sorted), lineNumber)
           merged == mergeIssues(mergeIssues(builder, v.result.errors, TRUE),
                                 v.result.warnings, FALSE)
       IN validateEach(xero, v.cache, Tail(sorted), lineNumber + 1, merged,
                       IF isRegionValid(v.result) THEN invalidRegions
                       ELSE Append(invalidRegions, Head(sorted)))

\* RegionValidator.validateRegions: the result and the cache it leaves
validateRegions(xero, cache, regions) ==
  LET builder == setValidatedItems(NewResult, Cardinality(regions))
  IN IF regions = {}
       THEN [result |-> addWarning(builder, Issue("NO_REGIONS", NoLine)), cache |-> cache]
     ELSE LET v == validateEach(xero, cache, sortRegions(regions), 1, builder, <<>>)
          IN [result |->
                [v.result EXCEPT !.metadata =
                   [total_regions |-> Cardinality(regions),
                    valid_regions |-> Cardinality(regions) - Len(v.invalidRegions),
                    invalid_regions |-> v.invalidRegions,
                    xero_regions_count |-> Cardinality(xero)]],
              cache |-> v.cache]

(***************************************************************************)
(* Settings manager                                                        *)
(***************************************************************************)
\* A key an object does not have, and a key it has with a value.
Undefined == <<>>
Defined(value) == <<value>>

\* The settings the model follows: the validation section, and of the xero
\* section the regionMapping key, which the default object does not have.
InitialSettings ==
  [validation |-> DefaultSettings, xero |-> [regionMapping |-> Undefined]]

\* The dotted paths of the settings the model follows.
SettingPaths ==
  {"validation.fuzzyMatchThresholds.high", "validation.fuzzyMatchThresholds.medium",
   "validation.fuzzyMatchThresholds.low", "validation.enabledAlgorithms.levenshtein",
   "validation.enabledAlgorithms.jaccard", "validation.enabledAlgorithms.wordLevel",
   "validation.maxSuggestions", "xero.regionMapping"}

\* SettingsManager.getNestedValue
getNestedValue(obj, path) ==
  CASE path = "validation.fuzzyMatchThresholds.high" -> obj.validation.fuzzyMatchThresholds.high
    [] path = "validation.fuzzyMatchThresholds.medium" -> obj.validation.fuzzyMatchThresholds.medium
    [] path = "validation.fuzzyMatchThresholds.low" -> obj.validation.fuzzyMatchThresholds.low
    [] path = "validation.enabledAlgorithms.levenshtein" -> obj.validation.enabledAlgorithms.levenshtein
    [] path = "validation.enabledAlgorithms.jaccard" -> obj.validation.enabledAlgorithms.jaccard
    [] path = "validation.enabledAlgorithms.wordLevel" -> obj.validation.enabledAlgorithms.wordLevel
    [] path = "validation.maxSuggestions" -> obj.validation.maxSuggestions
    [] path = "xero.regionMapping" -> obj.xero.regionMapping

\* SettingsManager.setNestedValue: the object with the value written at the path
setNestedValue(obj, path, value) ==
  CASE path = "validation.fuzzyMatchThresholds.high" ->
         [obj EXCEPT !.validation.fuzzyMatchThresholds.high = value]
    [] path = "validation.fuzzyMatchThresholds.medium" ->
         [obj EXCEPT !.validation.fuzzyMatchThresholds.medium = value]
    [] path = "validation.fuzzyMatchThresholds.low" ->
         [obj EXCEPT !.validation.fuzzyMatchThresholds.low = value]
    [] path = "validation.enabledAlgorithms.levenshtein" ->
         [obj EXCEPT !.validation.enabledAlgorithms.levenshtein = value]
    [] path = "validation.enabledAlgorithms.jaccard" ->
         [obj EXCEPT !.validation.enabledAlgorithms.jaccard = value]
    [] path = "validation.enabledAlgorithms.wordLevel" ->
         [obj EXCEPT !.validation.enabledAlgorithms.wordLevel = value]
    [] path = "validation.maxSuggestions" ->
         [obj EXCEPT !.validation.maxSuggestions = value]
    [] path = "xero.regionMapping" ->
         [obj EXCEPT !.xero.regionMapping = Defined(value)]

\* SettingsManager.mergeDeep: copies of the target's objects with the leaves
\* of the source written into them; an object-valued leaf (the region
\* mapping) is merged key by key with the mapping that is there
RECURSIVE mergeDeep(_, _)
mergeDeep(target, source) ==
  IF DOMAIN source = {} THEN target
  ELSE LET path == CHOOSE p \in DOMAIN source : TRUE
           rest == [p \in DOMAIN source \ {path} |-> source[p]]
           old == getNestedValue(target, path)
           value == IF path = "xero.regionMapping" /\ old # Undefined
                      THEN source[path] @@ old[1]
                      ELSE source[path]
       IN mergeDeep(setNestedValue(target, path, value), rest)

\* SettingsSchema.safeParse(...).success for objects whose values have the
\* right types: the ranges of the thresholds (hundredths) and of maxSuggestions
schemaAccepts(obj) ==
  /\ \A t \in {"high", "medium", "low"} :
       obj.validation.fuzzyMatchThresholds[t] \in 0..(100 * 100)
  /\ obj.validation.maxSuggestions \in 1..10

\* SettingsSchema.safeParse(...).data: a new object without the keys the
\* schema does not declare (z.object strips them)
schemaData(obj) == [obj EXCEPT !.xero.regionMapping = Undefined]

(***************************************************************************)
(* Ledger entries and the weekly overtime allocation                       *)
(***************************************************************************)
\* The weekly REGULAR threshold (hours), as written in calculateOvertimeHours.
WeeklyThreshold == 40

\* Hours booked for a holiday marker.
HolidayHours == 8

Entry(date, region, hours, type, rate) ==
  [entry_date |-> date, region_name |-> region, hours |-> hours,
   hour_type |-> type, overtime_rate |-> rate]

RECURSIVE SumHours(_)
SumHours(entries) ==
  IF entries = <<>> THEN 0 ELSE Head(entries).hours + SumHours(Tail(entries))

\* Array.prototype.find, as the index of the first hit (0: none)
FirstIndex(entries, Test(_)) ==
  IF \E i \in DOMAIN entries : Test(entries[i])
    THEN CHOOSE i \in DOMAIN entries :
           Test(entries[i]) /\ \A k \in 1..(i - 1) : ~Test(entries[k])
    ELSE 0

\* Date.prototype.getDay of a calendar day: 0 is Sunday.  Day 0 is a Monday.
getDay(day) == (day + 1) % 7

\* getWeekStart(new Date(entry_date)).toISOString().split('T')[0].
\* entry_date is parsed as UTC midnight; getDay, getDate and setDate work on
\* the server's local calendar, which at that instant shows the day
\* date + shift (shift = -1 for a zone behind UTC, 0 otherwise); the result
\* is printed as a UTC date again.
getWeekStart(date, shift) ==
  LET d == date + shift
      day == getDay(d)
      diff == d - day + (IF day = 0 THEN -6 ELSE 1)
  IN diff - shift

\* weeklyEntries: the week keys in order of first appearance
RECURSIVE weekKeys(_, _, _)
weekKeys(entries, shift, acc) ==
  IF entries = <<>> THEN acc
  ELSE LET e == Head(entries)
           key == getWeekStart(e.entry_date, shift)
       IN weekKeys(Tail(entries), shift,
            IF e.hour_type = "REGULAR" /\ key \notin Range(acc)
              THEN Append(acc, key) ELSE acc)

\* weeklyEntries.get(weekKey): the positions of the week's REGULAR entries,
\* in insertion order
RECURSIVE weekPositions(_, _, _, _)
weekPositions(entries, shift, key, i) ==
  IF i > Len(entries) THEN <<>>
  ELSE (IF entries[i].hour_type = "REGULAR"
           /\ getWeekStart(entries[i].entry_date, shift) = key
          THEN <<i>> ELSE <<>>)
       \o weekPositions(entries, shift, key, i + 1)

\* The allocation works on the entries as they were handed in (entries, with
\* hours updated in place), the positions already spliced out (removed) and
\* the OVERTIME entries pushed so far (pushed).
\*
\* The loop over one week's entries, from the last inserted to the first.
\* removeVisited: the Express server splices out a visited entry whose hours
\* are 0 inside the loop.
RECURSIVE redistributeHoursForOvertime(_, _, _, _, _)
redistributeHoursForOvertime(st, positions, i, remaining, removeVisited) ==
  IF i < 1 \/ remaining <= 0 THEN st
  ELSE
    LET p == positions[i]
        entry == st.entries[p]
        used == Min2(entry.hours, remaining)
        hoursAfter == IF used > 0 THEN entry.hours - used ELSE entry.hours
        st1 == [entries |-> [st.entries EXCEPT ![p].hours = hoursAfter],
                removed |-> IF removeVisited /\ hoursAfter = 0
                              THEN st.removed \cup {p} ELSE st.removed,
                pushed |-> IF used > 0
                             THEN Append(st.pushed,
                                    Entry(entry.entry_date, entry.region_name, used,
                                          "OVERTIME", entry.overtime_rate))
                             ELSE st.pushed]
    IN redistributeHoursForOvertime(st1, positions, i - 1,
         IF used > 0 THEN remaining - used ELSE remaining, removeVisited)

\* app/api routes: after an over-threshold week, every REGULAR entry of the
\* employee whose hours are 0 is spliced out
removeZeroRegular(st) ==
  [st EXCEPT !.removed =
     @ \cup {p \in DOMAIN st.entries :
               st.entries[p].hour_type = "REGULAR" /\ st.entries[p].hours = 0}]

RECURSIVE allocateWeeks(_, _, _, _)
allocateWeeks(st, keys, shift, express) ==
  IF keys = <<>> THEN st
  ELSE
    LET positions == weekPositions(st.entries, shift, Head(keys), 1)
        totalWeeklyHours == SumHours([k \in DOMAIN positions |-> st.entries[positions[k]]])
        st1 == IF totalWeeklyHours > WeeklyThreshold
                 THEN LET r == redistributeHoursForOvertime(st, positions, Len(positions),
                                 totalWeeklyHours - WeeklyThreshold, express)
                      IN IF express THEN r ELSE removeZeroRegular(r)
                 ELSE st
    IN allocateWeeks(st1, Tail(keys), shift, express)

RECURSIVE keepPositions(_, _, _)
keepPositions(entries, removed, i) ==
  IF i > Len(entries) THEN <<>>
  ELSE (IF i \in removed THEN <<>> ELSE <<entries[i]>>)
       \o keepPositions(entries, removed, i + 1)

\* calculateOvertimeHours for one employee
allocateEmployee(entries, shift, express) ==
  LET st == allocateWeeks([entries |-> entries, removed |-> {}, pushed |-> <<>>],
                          weekKeys(entries, shift, <<>>), shift, express)
  IN keepPositions(st.entries, st.removed, 1) \o st.pushed

\* calculateOvertimeHours
calculateOvertimeHours(data, shift, express) ==
  [n \in DOMAIN data |-> allocateEmployee(data[n], shift, express)]

(***************************************************************************)
(* Name resolution in the request handlers                                 *)
(***************************************************************************)
\* The employee list the Xero organisation returns when it can be fetched.
XeroEmployees == <<"Jack Allan", "Andrew Dwyer">>

\* The values employeeValidator.knownEmployees takes.
Registries == {<<>>, KNOWN_EMPLOYEES, XeroEmployees}

\* The matcher is a pure function of the name cell and the registry; its
\* results for the name cells of the run are tabulated when the run starts:
\* validateEmployee[known][n] is employeeValidator.validateEmployee(n) under
\* the registry known, headerLike[n] the caption test of the app route.
VARIABLE matchCache

\* suggestions.map(s => s.name)
suggestionNames(suggestions) == [i \in DOMAIN suggestions |-> suggestions[i].name]

\* suggestions.map(s => ({name, score, confidence: matchResult.confidence}))
pendingSuggestions(matchResult) ==
  [i \in DOMAIN matchResult.suggestions |->
     [name |-> matchResult.suggestions[i].name,
      score |-> matchResult.suggestions[i].score,
      confidence |-> matchResult.confidence]]

PendingMatch(input, lineNumber, fileType, matchResult) ==
  [input_name |-> input, line_number |-> lineNumber, file_type |-> fileType,
   suggestions |-> pendingSuggestions(matchResult)]

\* pendingMatches.some(p => p.input_name === input && p.file_type === fileType)
hasPending(pending, input, fileType) ==
  \E i \in DOMAIN pending :
    pending[i].input_name = input /\ pending[i].file_type = fileType

\* The value every validator returns (validationResult, which no handler
\* reads, is left out).  Scores stay in hundredths of a percent.
Resolution(match, score, confidence, suggestions, needsConfirmation) ==
  [match |-> match, score |-> score, confidence |-> confidence,
   suggestions |-> suggestions, needsConfirmation |-> needsConfirmation]

\* server/routes.ts validateAndMatchEmployee: the resolution and the module's
\* pendingMatches list afterwards
expressValidateAndMatchEmployee(input, lineNumber, fileType, pending, known) ==
  LET matchResult == matchCache.validateEmployee[known][input]
      needsConfirmation == /\ matchResult.confidence_score < AutoAcceptScore
                           /\ matchResult.confidence_score >= StrongSuggestionScore
                           /\ Len(matchResult.suggestions) > 0
  IN [res |-> Resolution(IF needsConfirmation THEN null ELSE matchResult.matched_name,
                         matchResult.confidence_score, matchResult.confidence,
                         suggestionNames(matchResult.suggestions), needsConfirmation),
      pending |-> IF needsConfirmation /\ ~hasPending(pending, input, fileType)
                    THEN Append(pending,
                                PendingMatch(input, lineNumber, fileType, matchResult))
                    ELSE pending]

\* server/routes.ts validateAndMatchEmployeeWithConfirmations, the wrapper the
\* confirmation route builds around the validator above
validateAndMatchEmployeeWithConfirmations(matchConfirmations, input, lineNumber, fileType, pending, known) ==
  IF input \in DOMAIN matchConfirmations /\ matchConfirmations[input] # null
    THEN [res |-> Resolution(matchConfirmations[input], 10000, "HIGH", <<>>, FALSE),
          pending |-> pending]
  ELSE IF input \in DOMAIN matchConfirmations
    THEN [res |-> Resolution(null, 0, "NO_MATCH", <<>>, FALSE), pending |-> pending]
  ELSE expressValidateAndMatchEmployee(input, lineNumber, fileType, pending, known)

\* /\d/.test(raw)
hasDigit(raw) == \E i \in DOMAIN raw : raw[i] \in Digits

\* a regular expression  first\s*second  tested without regard to case
matchesWithGap(raw, first, second) ==
  LET lower == MapSeq(raw, toLowerCase)
  IN \E i \in 1..(Len(lower) - Len(first) + 1) :
       \E j \in (i + Len(first))..(Len(lower) - Len(second) + 1) :
         /\ SubSeq(lower, i, i + Len(first) - 1) = first
         /\ \A k \in (i + Len(first))..(j - 1) : IsSpace(lower[k])
         /\ SubSeq(lower, j, j + Len(second) - 1) = second

\* app/api/process-timesheets validateAndMatchEmployee: headerLike
headerLike(raw) ==
  LET lower == MapSeq(raw, toLowerCase)
  IN \/ Len(raw) < 3
     \/ ":" \in Range(raw)
     \/ hasDigit(raw)
     \/ includes(lower, <<"w","e","e","k">>)
     \/ includes(lower, <<"c","o","m","p","a","n","y">>)
     \/ includes(lower, <<"r","e","g","i","o","n">>)
     \/ includes(lower, <<"s","u","p","e","r","v","i","s","o","r">>)
     \/ includes(lower, <<"c","o","n","t","r","a","c","t","o","r">>)
     \/ matchesWithGap(raw, <<"e","m","p","l","o","y","e","e">>, <<"n","a","m","e">>)
     \/ matchesWithGap(raw, <<"t","o">>, <<"t","e","m","p","o","r","a","r","y">>)

MatchCache ==
  [validateEmployee |->
     [known \in Registries |->
        [n \in InputNames |-> validateEmployee(n, known)]],
   headerLike |-> [n \in InputNames |-> headerLike(trim(NameText[n]))]]

\* app/api/process-timesheets validateAndMatchEmployee: the resolution and the
\* request's pendingMatches list afterwards
nextValidateAndMatchEmployee(input, lineNumber, fileType, pending, known) ==
  IF matchCache.headerLike[input]
    THEN [res |-> Resolution(null, 0, "LOW", <<>>, FALSE), pending |-> pending]
  ELSE
    LET matchResult == matchCache.validateEmployee[known][input]
        hasExact == /\ matchResult.matched_name # null
                    /\ matchResult.confidence_score >= AutoAcceptScore
        strongSuggestion == /\ Len(matchResult.suggestions) > 0
                            /\ matchResult.suggestions[1].score >= StrongSuggestionScore
    IN IF hasExact
         THEN [res |-> Resolution(matchResult.matched_name, matchResult.confidence_score,
                                  matchResult.confidence, <<>>, FALSE),
               pending |-> pending]
       ELSE IF strongSuggestion
         THEN [res |-> Resolution(null, matchResult.confidence_score,
                                  matchResult.confidence,
                                  suggestionNames(matchResult.suggestions), TRUE),
               pending |-> IF hasPending(pending, input, fileType) THEN pending
                           ELSE Append(pending,
                                  PendingMatch(input, lineNumber, fileType, matchResult))]
       ELSE [res |-> Resolution(null, matchResult.confidence_score,
                                matchResult.confidence, <<>>, FALSE),
             pending |-> pending]

\* app/api/processing-results validateAndMatchEmployee (the confirmation pass
\* of the app router); it keeps no pending list
confirmValidateAndMatchEmployee(confirmations, input, lineNumber, fileType, pending, known) ==
  IF input \in DOMAIN confirmations
    THEN [res |-> IF confirmations[input] = null
                    THEN Resolution(null, 0, "NO_MATCH", <<>>, FALSE)
                    ELSE Resolution(confirmations[input], 10000, "HIGH", <<>>, FALSE),
          pending |-> pending]
  ELSE LET matchResult == matchCache.validateEmployee[known][input]
       IN [res |-> Resolution(matchResult.matched_name, matchResult.confidence_score,
                              matchResult.confidence,
                              suggestionNames(matchResult.suggestions), FALSE),
           pending |-> pending]

(***************************************************************************)
(* Sheet rows and their aggregation into the ledger                        *)
(***************************************************************************)
\* overtime_rate: null (a parsed rate is always greater than 0)
NoRate == 0

\* A cell of a day column: a number (empty cells read as 0) or the marker HOL.
Num(h) == [kind |-> "num", v |-> h]
Hol == [kind |-> "HOL", v |-> 0]

\* processSiteTimesheet / the site loop of the app routes: one day cell.
\* express: the Express server looks for an earlier holiday by date alone and
\* keeps every non-zero number; the app routes look by date and region and
\* keep positive numbers only.
processSiteCell(entries, regionName, cellValue, dayIndex, express) ==
  LET dateString == dayIndex
      isHol == cellValue.kind = "HOL"
      existingHoliday ==
        FirstIndex(entries, LAMBDA e : /\ e.entry_date = dateString
                                       /\ e.hour_type = "HOLIDAY"
                                       /\ (express \/ e.region_name = regionName))
      hours == IF isHol THEN HolidayHours ELSE cellValue.v
      hourType == IF isHol THEN "HOLIDAY" ELSE "REGULAR"
      skipped == \/ ~isHol /\ cellValue.v = 0
                 \/ isHol /\ existingHoliday # 0
                 \/ ~isHol /\ ~express /\ cellValue.v <= 0
      existingEntry ==
        FirstIndex(entries, LAMBDA e : /\ e.entry_date = dateString
                                       /\ e.region_name = regionName
                                       /\ e.hour_type = hourType)
  IN IF skipped THEN entries
     ELSE IF existingEntry # 0
       THEN [entries EXCEPT ![existingEntry].hours = @ + hours]
       ELSE Append(entries, Entry(dateString, regionName, hours, hourType, NoRate))

\* for (let dayIndex = 0; dayIndex < 7; dayIndex++)
RECURSIVE processSiteRow(_, _, _, _, _)
processSiteRow(entries, regionName, row, dayIndex, express) ==
  IF dayIndex >= 7 THEN entries
  ELSE processSiteRow(processSiteCell(entries, regionName, row[dayIndex + 1],
                                      dayIndex, express),
                      regionName, row, dayIndex + 1, express)

\* A row of the travel sheet under its header row.
TravelRow(name, hours, hasDate, date, region) ==
  [name |-> name, hours |-> hours, hasDate |-> hasDate, date |-> date,
   region |-> region]

\* the travel date, or the default (the base Monday)
travelEntryDate(row) == IF row.hasDate THEN row.date ELSE 0

\* travelRow[regionColIndex] || "Eastside"
travelRegionName(row) == IF row.region = null THEN "Eastside" ELSE row.region

\* server/routes.ts processTravelTimesheet: the hours join the REGULAR entry
\* of the same date and region
expressTravelEntries(entries, row) ==
  LET entryDate == travelEntryDate(row)
      regionName == travelRegionName(row)
      existingRegularEntry ==
        FirstIndex(entries, LAMBDA e : /\ e.entry_date = entryDate
                                       /\ e.region_name = regionName
                                       /\ e.hour_type = "REGULAR")
  IN IF existingRegularEntry # 0
       THEN [entries EXCEPT ![existingRegularEntry].hours = @ + row.hours]
       ELSE Append(entries, Entry(entryDate, regionName, row.hours, "REGULAR", NoRate))

\* app/api/process-timesheets: the hours are pushed as a TRAVEL entry
nextTravelEntries(entries, row) ==
  Append(entries, Entry(travelEntryDate(row), travelRegionName(row), row.hours,
                        "TRAVEL", NoRate))

\* employee.entries.forEach(entry => entry.overtime_rate = rate)
applyRate(entries, rate) == [i \in DOMAIN entries |-> [entries[i] EXCEPT !.overtime_rate = rate]]

\* employeeData.get(name).entries, empty when the employee is not yet known
entriesOf(data, name) == IF name \in DOMAIN data THEN data[name] ELSE <<>>

\* employeeData.set(name, ...) followed by the update of its entries
withEntries(data, name, entries) ==
  [n \in DOMAIN data \cup {name} |-> IF n = name THEN entries ELSE data[n]]

\* The day cells of the uploaded site rows.
Week45 == <<Num(9), Num(9), Num(9), Num(9), Num(9), Num(0), Num(0)>>
Monday3 == <<Num(3), Num(0), Num(0), Num(0), Num(0), Num(0), Num(0)>>
Friday38 == <<Num(4), Num(0), Num(0), Num(0), Num(38), Num(0), Num(0)>>
HolidayWeek == <<Hol, Num(0), Num(0), Num(0), Num(0), Num(0), Num(-4)>>

\* The rows a site tab can carry: the exact name with each week, every other
\* name cell with a single Monday.
SiteRows ==
  {[name |-> "Jack Allan", cells |-> c] : c \in {Week45, Monday3, Friday38, HolidayWeek}}
  \cup {[name |-> n, cells |-> Monday3] : n \in {"Jack Alla", "Jack Alan", "Week 1"}}

\* workbook.SheetNames of the site workbook: a subsequence of these tabs.
SheetNames == <<"North", "South", "West">>

\* The rows of the travel sheet.
TravelRows ==
  {TravelRow("Jack Allan", 38, TRUE, 4, "North"),
   TravelRow("Jack Allan", -2, TRUE, 7, null),
   TravelRow("Jack Alan", 38, FALSE, 0, "North")}

\* The rows of the overtime-rate sheet; rate NoRate: no usable rate cell.
RateRows ==
  {[name |-> "Jack Allan", rate |-> 25],
   [name |-> "Jack Allan", rate |-> NoRate],
   [name |-> "Jack Alan", rate |-> 25]}

(***************************************************************************)
(* The request handlers as a state machine                                 *)
(***************************************************************************)
\* Requests received plus sheet rows read, over the whole run.
MaxSteps == 3

\* The hashes of the uploads (generateFileHash of the three files).
FileHashes == {"h1"}

\* FALLBACK_REGIONS of app/api/process-timesheets
FALLBACK_REGIONS == <<"Eastside", "South", "North">>

\* The options of the Region tracking category the Xero organisation returns.
XeroRegions == <<"North", "South">>

\* The confirmations field of a confirmation request once parsed.
ConfirmationPayloads ==
  {<<>>, [n \in {"Jack Alan"} |-> "Jack Allan"], [n \in {"Jack Alan"} |-> null]}

VARIABLES
  deployment,              \* "express": server/routes.ts; "next": the app/api routes
  tzShift,                 \* local calendar day minus UTC day at UTC midnight
  knownEmployees,          \* employeeValidator.knownEmployees
  loaded,                  \* the app/api route modules loaded so far
  pendingMatches,          \* the pendingMatches list the validator pushes to
  results,                 \* number of stored processing results
  submissions,             \* file hashes of the stored submissions
  pc,                      \* where the running handler stands; "idle": none runs
  route,                   \* "process" or "confirm"
  skipDuplicateCheck,
  fileHash,
  confirmations,
  allowedRegions,
  unknownRegions,
  tab,                     \* the site tab being read, null before the first
  tabIndex,                \* position of that tab in SheetNames, 0 before the first
  lineNo,                  \* line number of the next row of the current sheet
  employeeData,
  overtimeRatesByEmployee,
  observations,            \* history: what each row of this request resolved to
  preAlloc,                \* history: employeeData as calculateOvertimeHours got it
  response,                \* the last response sent
  steps,                   \* requests received plus sheet rows read so far
  received,                \* what the request being handled carried and met
  call,                    \* the last direct call of a matcher function
  builderResult,           \* ValidationResultBuilder.result of the builder in use
  xeroRegions,             \* regionValidator.xeroRegions
  regionCache,             \* regionValidator.regionCache
  settings,                \* settingsManager.settings
  defaultSettings,         \* the DefaultSettings object
  settingsShared,          \* settings holds the nested objects of DefaultSettings
  settingsReply,           \* the last call that wrote the settings, and its result
  storage,                 \* which IStorage the server built at start ("unset" before)
  requests,                \* the /api/process-timesheets requests in flight, by arrival
  activeStates,            \* AuthManager.activeStates, in insertion order
  now,                     \* the clock new Date() reads, in minutes
  issuedStates,            \* every state generateAuthUrl has returned
  usedStates               \* every state a code exchange was started under

vars ==
  <<matchCache, deployment, tzShift, knownEmployees, loaded, pendingMatches, results,
    submissions, pc, route, skipDuplicateCheck, fileHash, confirmations,
    allowedRegions, unknownRegions, tab, tabIndex, lineNo, employeeData,
    overtimeRatesByEmployee, observations, preAlloc, response, steps,
    received, call, builderResult, xeroRegions, regionCache, settings,
    defaultSettings, settingsShared, settingsReply,
    storage, requests, activeStates, now, issuedStates, usedStates>>

\* the state of the classes that are also called on their own
classes ==
  <<builderResult, xeroRegions, regionCache, settings, defaultSettings,
    settingsShared, settingsReply,
    storage, requests, activeStates, now, issuedStates, usedStates>>

\* the variables no handler step changes
env == <<deployment, tzShift, matchCache, call, classes>>

\* received: the confirmations field of the request (body) and the outcome
\* of the registry fetch (fetch); null where the route has none
Received(body, fetch) == [body |-> body, fetch |-> fetch]

\* no direct call was made
NoCall == [op |-> "none"]

NoResponse ==
  [status |-> "none", pendingMatches |-> <<>>, ledger |-> <<>>,
   stored |-> FALSE, submitted |-> FALSE]

Reply(status) == [NoResponse EXCEPT !.status = status]

\* No request has been received and no call has been made.
Idle ==
  /\ loaded = {}
  /\ pendingMatches = <<>>
  /\ results = 0
  /\ submissions = {}
  /\ pc = "idle"
  /\ route = "process"
  /\ skipDuplicateCheck = FALSE
  /\ fileHash = null
  /\ confirmations = <<>>
  /\ allowedRegions = <<>>
  /\ unknownRegions = {}
  /\ tab = null
  /\ tabIndex = 0
  /\ lineNo = 2
  /\ employeeData = <<>>
  /\ overtimeRatesByEmployee = <<>>
  /\ observations = <<>>
  /\ preAlloc = <<>>
  /\ response = NoResponse
  /\ steps = 0
  /\ received = Received(null, null)
  /\ builderResult = NewResult
  /\ xeroRegions = IF deployment = "express"
                     THEN {RegionText[r] : r \in Range(VALID_REGIONS)}
                     ELSE {}
  /\ regionCache = <<>>
  /\ settings = InitialSettings
  /\ defaultSettings = InitialSettings
  /\ settingsShared = TRUE
  /\ settingsReply = NoCall
  /\ storage = "unset"
  /\ requests = <<>>
  /\ activeStates = <<>>
  /\ now = 0
  /\ issuedStates = {}
  /\ usedStates = {}
  /\ call = NoCall

Init ==
  /\ matchCache = MatchCache
  /\ deployment \in {"express", "next"}
  /\ tzShift \in {0, -1}
  /\ knownEmployees = IF deployment = "express" THEN KNOWN_EMPLOYEES ELSE <<>>
  /\ Idle

\* A request arrives: the state every handler starts from.
Begin(r, skip, hash, conf, regions, rec) ==
  /\ route' = r
  /\ received' = rec
  /\ skipDuplicateCheck' = skip
  /\ fileHash' = hash
  /\ confirmations' = conf
  /\ allowedRegions' = regions
  /\ unknownRegions' = {}
  /\ tab' = null
  /\ tabIndex' = 0
  /\ lineNo' = 2
  /\ employeeData' = <<>>
  /\ overtimeRatesByEmployee' = <<>>
  /\ observations' = <<>>
  /\ preAlloc' = <<>>
  /\ steps' = steps + 1
  /\ UNCHANGED <<env, results, submissions>>

\* The handler returns: its local variables are gone.
End(resp) ==
  /\ pc' = "idle"
  /\ response' = resp
  /\ skipDuplicateCheck' = FALSE
  /\ fileHash' = null
  /\ allowedRegions' = <<>>
  /\ unknownRegions' = {}
  /\ tab' = null
  /\ tabIndex' = 0
  /\ lineNo' = 2
  /\ employeeData' = <<>>
  /\ overtimeRatesByEmployee' = <<>>
  /\ UNCHANGED <<env, route, confirmations, steps, received>>

\* A request that is answered before any sheet is read.
Rejected(r, status, rec) ==
  /\ Begin(r, FALSE, null, <<>>, <<>>, rec)
  /\ pc' = "idle"
  /\ response' = Reply(status)

\* The validator the running handler calls.  The Express confirmation route
\* builds validateAndMatchEmployeeWithConfirmations, but processSiteTimesheet,
\* processTravelTimesheet and processOvertimeRates call the module's
\* validateAndMatchEmployee.
resolve(input, lineNumber, fileType) ==
  IF deployment = "express"
    THEN expressValidateAndMatchEmployee(input, lineNumber, fileType,
                                         pendingMatches, knownEmployees)
  ELSE IF route = "process"
    THEN nextValidateAndMatchEmployee(input, lineNumber, fileType,
                                      pendingMatches, knownEmployees)
  ELSE confirmValidateAndMatchEmployee(confirmations, input, lineNumber, fileType,
                                       pendingMatches, knownEmployees)

RECURSIVE SumRegular(_)
SumRegular(entries) ==
  IF entries = <<>> THEN 0
  ELSE (IF Head(entries).hour_type = "REGULAR" THEN Head(entries).hours ELSE 0)
       + SumRegular(Tail(entries))

\* The holiday markers of a site row: the date and the tab of every HOL cell.
holidayMarkers(cells, regionName) ==
  {<<d - 1, regionName>> : d \in {i \in DOMAIN cells : cells[i].kind = "HOL"}}

\* History record of one row: what it resolved to, whether it changed the
\* ledger, the hours it carried (site rows: the REGULAR hours it added) and
\* the holiday markers it carried.
Observation(fileType, lineNumber, input, res, touched, hours, markers) ==
  [file_type |-> fileType, line_number |-> lineNumber, input |-> input,
   res |-> res, touched |-> touched, hours |-> hours, markers |-> markers]

\* POST /api/process-timesheets of server/routes.ts, up to the first sheet
ExpressProcess(complete, skip, hash) ==
  /\ deployment = "express" /\ pc = "idle" /\ steps < MaxSteps
  /\ UNCHANGED <<knownEmployees, loaded, pendingMatches>>
  /\ IF complete /\ ~skip /\ hash \in submissions
       THEN Rejected("process", "duplicate", Received(null, null))
     ELSE IF ~complete
       THEN Rejected("process", "bad_request", Received(null, null))
     ELSE /\ Begin("process", skip, hash, <<>>, <<>>, Received(null, null))
          /\ pc' = "site"
          /\ response' = NoResponse

\* POST /api/process-timesheets-with-confirmations of server/routes.ts, up to
\* the first sheet.  body: the confirmations field is missing, is not JSON,
\* or parses to conf.
ExpressConfirm(complete, body, conf) ==
  /\ deployment = "express" /\ pc = "idle" /\ steps < MaxSteps
  /\ UNCHANGED <<knownEmployees, loaded>>
  /\ IF ~complete \/ body \in {"missing", "malformed"}
       THEN /\ Rejected("confirm", "bad_request", Received(body, null))
            /\ UNCHANGED pendingMatches
       ELSE /\ pendingMatches' = <<>>
            /\ Begin("confirm", FALSE, null, conf, <<>>, Received(body, null))
            /\ pc' = "site"
            /\ response' = NoResponse

\* for (const regionName of regions): the next tab of the site workbook
SiteTab(i) ==
  /\ pc = "site" /\ i > tabIndex
  /\ LET t == SheetNames[i]
         live == deployment = "next" /\ route = "process"
         accepted == IF live
                       THEN Len(allowedRegions) = 0 \/ t \in Range(allowedRegions)
                       ELSE t \in Range(VALID_REGIONS)
     IN /\ tab' = IF accepted THEN t ELSE null
        /\ unknownRegions' = IF live /\ ~accepted THEN unknownRegions \cup {t}
                             ELSE unknownRegions
  /\ tabIndex' = i
  /\ lineNo' = 2
  /\ UNCHANGED <<env, knownEmployees, loaded, pendingMatches, results, submissions,
                 pc, route, skipDuplicateCheck, fileHash, confirmations, received,
                 allowedRegions, employeeData, overtimeRatesByEmployee,
                 observations, preAlloc, response, steps>>

\* one row of the current site tab
SiteRow(r) ==
  /\ pc = "site" /\ tab # null /\ steps < MaxSteps
  /\ LET v == resolve(r.name, lineNo, "site_timesheet")
         before == entriesOf(employeeData, v.res.match)
         after == processSiteRow(before, tab, r.cells, 0, deployment = "express")
         data == IF v.res.match = null THEN employeeData
                 ELSE withEntries(employeeData, v.res.match, after)
     IN /\ pendingMatches' = v.pending
        /\ employeeData' = data
        /\ observations' =
             Append(observations,
                    Observation("site_timesheet", lineNo, r.name, v.res,
                                data # employeeData,
                                IF v.res.match = null THEN 0
                                ELSE SumRegular(after) - SumRegular(before),
                                holidayMarkers(r.cells, tab)))
  /\ lineNo' = lineNo + 1
  /\ steps' = steps + 1
  /\ UNCHANGED <<env, knownEmployees, loaded, results, submissions, pc, route,
                 skipDuplicateCheck, fileHash, confirmations, received, allowedRegions,
                 unknownRegions, tab, tabIndex, overtimeRatesByEmployee, preAlloc,
                 response>>

\* one row of the travel sheet.  The Express routes read it after the site
\* sheet; app/api/process-timesheets reads it after the overtime allocation;
\* app/api/processing-results does not read it.
TravelRowStep(r) ==
  /\ steps < MaxSteps
  /\ IF deployment = "express" THEN pc \in {"site", "travel"} ELSE pc = "travel"
  /\ LET line == IF pc = "travel" THEN lineNo ELSE 2
         v == resolve(r.name, line, "travel_timesheet")
         before == entriesOf(employeeData, v.res.match)
         after == IF deployment = "express" THEN expressTravelEntries(before, r)
                  ELSE nextTravelEntries(before, r)
         data == IF v.res.match = null THEN employeeData
                 ELSE withEntries(employeeData, v.res.match, after)
     IN /\ pendingMatches' = v.pending
        /\ employeeData' = data
        /\ observations' =
             Append(observations,
                    Observation("travel_timesheet", line, r.name, v.res,
                                data # employeeData, r.hours, {}))
        /\ lineNo' = line + 1
  /\ pc' = "travel"
  /\ steps' = steps + 1
  /\ UNCHANGED <<env, knownEmployees, loaded, results, submissions, route,
                 skipDuplicateCheck, fileHash, confirmations, received, allowedRegions,
                 unknownRegions, tab, tabIndex, overtimeRatesByEmployee, preAlloc,
                 response>>

\* one row of the overtime-rate sheet.  processOvertimeRates writes the rate
\* into the entries the employee has; app/api/process-timesheets keeps it for
\* the end of the run.
RateRowStep(r) ==
  /\ steps < MaxSteps
  /\ IF deployment = "express" THEN pc \in {"site", "travel", "rates"}
     ELSE route = "process" /\ pc \in {"site", "rates"} /\ unknownRegions = {}
  /\ LET line == IF pc = "rates" THEN lineNo ELSE 2
         v == resolve(r.name, line, "overtime_rates")
         m == v.res.match
         data == IF deployment = "express" /\ m # null /\ m \in DOMAIN employeeData
                   THEN withEntries(employeeData, m, applyRate(employeeData[m], r.rate))
                   ELSE employeeData
     IN /\ pendingMatches' = v.pending
        /\ employeeData' = data
        /\ overtimeRatesByEmployee' =
             IF deployment = "next" /\ m # null
               THEN withEntries(overtimeRatesByEmployee, m, r.rate)
               ELSE overtimeRatesByEmployee
        /\ observations' =
             Append(observations,
                    Observation("overtime_rates", line, r.name, v.res,
                                data # employeeData, 0, {}))
        /\ lineNo' = line + 1
  /\ pc' = "rates"
  /\ steps' = steps + 1
  /\ UNCHANGED <<env, knownEmployees, loaded, results, submissions, route,
                 skipDuplicateCheck, fileHash, confirmations, received, allowedRegions,
                 unknownRegions, tab, tabIndex, preAlloc, response>>

\* parseExcelFile throws on the travel or the overtime-rate workbook of an
\* Express request: the catch block answers 500
ParseFailure ==
  /\ deployment = "express" /\ pc \in {"site", "travel"}
  /\ End(Reply("error"))
  /\ UNCHANGED <<knownEmployees, loaded, pendingMatches, results, submissions,
                 observations, preAlloc>>

\* the response of a run that stored its ledger
Stored(data, submitted) ==
  [status |-> "ok", pendingMatches |-> <<>>, ledger |-> data,
   stored |-> TRUE, submitted |-> submitted]

\* the response that asks for confirmation
NeedsConfirmation(pending) ==
  [Reply("needs_confirmation") EXCEPT !.pendingMatches = pending]

\* POST /api/process-timesheets of server/routes.ts, from calculateOvertimeHours
\* to the response
ExpressFinish ==
  /\ deployment = "express" /\ route = "process"
  /\ pc \in {"site", "travel", "rates"}
  /\ preAlloc' = employeeData
  /\ IF Len(pendingMatches) > 0
       THEN /\ pendingMatches' = <<>>
            /\ End(NeedsConfirmation(pendingMatches))
            /\ UNCHANGED <<results, submissions>>
       ELSE /\ results' = results + 1
            /\ submissions' = IF skipDuplicateCheck THEN submissions
                              ELSE submissions \cup {fileHash}
            /\ End(Stored(calculateOvertimeHours(employeeData, tzShift, TRUE),
                          ~skipDuplicateCheck))
            /\ UNCHANGED pendingMatches
  /\ UNCHANGED <<knownEmployees, loaded, observations>>

\* POST /api/process-timesheets-with-confirmations of server/routes.ts, from
\* calculateOvertimeHours to the response
ExpressConfirmFinish ==
  /\ deployment = "express" /\ route = "confirm"
  /\ pc \in {"site", "travel", "rates"}
  /\ preAlloc' = employeeData
  /\ results' = results + 1
  /\ End(Stored(calculateOvertimeHours(employeeData, tzShift, TRUE), FALSE))
  /\ UNCHANGED <<knownEmployees, loaded, pendingMatches, submissions, observations>>

\* What the Xero organisation answers when the run asks for employees and
\* regions: no client, a failed call, or the live lists.
FetchOutcomes == {"no_client", "failed", "live"}

\* POST of app/api/process-timesheets, up to the site workbook.  On the first
\* request the module is loaded, which empties the registry.
NextProcess(authed, complete, skip, hash, parsed, fetch) ==
  /\ deployment = "next" /\ pc = "idle" /\ steps < MaxSteps
  /\ loaded' = loaded \cup {"process-timesheets"}
  /\ pendingMatches' = <<>>
  /\ LET known == IF "process-timesheets" \in loaded THEN knownEmployees ELSE <<>>
     IN IF ~authed
          THEN Rejected("process", "unauthorized", Received(null, null))
               /\ knownEmployees' = known
        ELSE IF ~complete
          THEN Rejected("process", "bad_request", Received(null, null))
               /\ knownEmployees' = known
        ELSE IF ~skip /\ hash \in submissions
          THEN Rejected("process", "duplicate", Received(null, null))
               /\ knownEmployees' = known
        ELSE IF ~parsed
          THEN Rejected("process", "error", Received(null, null))
               /\ knownEmployees' = known
        ELSE /\ knownEmployees' = IF fetch = "no_client" THEN <<>>
                                  ELSE IF fetch = "live" THEN XeroEmployees
                                  ELSE known
             /\ Begin("process", skip, hash, <<>>,
                      IF fetch = "no_client" THEN <<>>
                      ELSE IF fetch = "live" THEN XeroRegions
                      ELSE FALLBACK_REGIONS,
                      Received(null, fetch))
             /\ pc' = "site"
             /\ response' = NoResponse

\* app/api/process-timesheets: a tab outside the allowed regions was met
NextUnknownRegions ==
  /\ deployment = "next" /\ route = "process" /\ pc = "site"
  /\ unknownRegions # {}
  /\ pendingMatches' = <<>>
  /\ End(Reply("unknown_regions"))
  /\ UNCHANGED <<knownEmployees, loaded, results, submissions, observations, preAlloc>>

\* app/api/process-timesheets: the pending check and calculateOvertimeHours,
\* which both come before the travel sheet is read
NextAllocate ==
  /\ deployment = "next" /\ route = "process" /\ pc \in {"site", "rates"}
  /\ unknownRegions = {}
  /\ IF Len(pendingMatches) > 0
       THEN /\ pendingMatches' = <<>>
            /\ End(NeedsConfirmation(pendingMatches))
            /\ UNCHANGED <<preAlloc>>
       ELSE /\ preAlloc' = employeeData
            /\ employeeData' = calculateOvertimeHours(employeeData, tzShift, FALSE)
            /\ pc' = "travel"
            /\ lineNo' = 2
            /\ UNCHANGED <<env, pendingMatches, route, skipDuplicateCheck, fileHash,
                           confirmations, received, allowedRegions, unknownRegions, tab,
                           tabIndex, overtimeRatesByEmployee, response, steps>>
  /\ UNCHANGED <<knownEmployees, loaded, results, submissions, observations>>

\* overtimeRatesByEmployee.get(employee.name) ?? null
rateOf(rates, name) == IF name \in DOMAIN rates THEN rates[name] ELSE NoRate

\* app/api/process-timesheets: the rates are applied, the result and the
\* submission are stored
NextFinish ==
  /\ deployment = "next" /\ route = "process" /\ pc = "travel"
  /\ results' = results + 1
  /\ submissions' = IF skipDuplicateCheck THEN submissions
                    ELSE submissions \cup {fileHash}
  /\ pendingMatches' = <<>>
  /\ End(Stored([n \in DOMAIN employeeData |->
                   applyRate(employeeData[n], rateOf(overtimeRatesByEmployee, n))],
                ~skipDuplicateCheck))
  /\ UNCHANGED <<knownEmployees, loaded, observations, preAlloc>>

\* POST of app/api/processing-results, up to the site workbook.  On the first
\* request the module is loaded, which installs KNOWN_EMPLOYEES.
NextConfirm(complete, body, conf) ==
  /\ deployment = "next" /\ pc = "idle" /\ steps < MaxSteps
  /\ loaded' = loaded \cup {"processing-results"}
  /\ knownEmployees' = IF "processing-results" \in loaded THEN knownEmployees
                       ELSE KNOWN_EMPLOYEES
  /\ pendingMatches' = <<>>
  /\ IF ~complete \/ body \in {"missing", "malformed"}
       THEN Rejected("confirm", "bad_request", Received(body, null))
       ELSE /\ Begin("confirm", FALSE, null, conf, <<>>, Received(body, null))
            /\ pc' = "site"
            /\ response' = NoResponse

\* app/api/processing-results: calculateOvertimeHours and the stored result
NextConfirmFinish ==
  /\ deployment = "next" /\ route = "confirm" /\ pc = "site"
  /\ preAlloc' = employeeData
  /\ results' = results + 1
  /\ End(Stored(calculateOvertimeHours(employeeData, tzShift, FALSE), FALSE))
  /\ UNCHANGED <<knownEmployees, loaded, pendingMatches, submissions, observations>>

\* The confirmations field: absent, not JSON, a JSON object that maps input
\* texts to a name or null, or the JSON array [], which JSON.parse accepts
\* and which has no own property named after an input text.
Bodies == {"missing", "malformed", "json", "array"}

\* The requests to /api/process-timesheets.  Requests that differ only in a
\* field the handler does not get to read are listed once.
ProcessRequests ==
  {r \in [authed : BOOLEAN, complete : BOOLEAN, skip : BOOLEAN, hash : FileHashes,
          parsed : BOOLEAN, fetch : FetchOutcomes] :
     /\ ~r.authed => r.complete
     /\ ~(r.authed /\ r.complete) => ~r.skip /\ r.parsed
     /\ ~(r.authed /\ r.complete /\ r.parsed) => r.fetch = "live"}

\* The same requests as the Express server sees them: it has no Xero session
\* check, and a workbook that does not parse is ParseFailure.
UploadRequests ==
  {r \in ProcessRequests : r.authed /\ r.parsed /\ r.fetch = "live"}

\* The requests to the confirmation routes, listed in the same way.
ConfirmRequests ==
  {r \in [complete : BOOLEAN, body : Bodies, conf : ConfirmationPayloads] :
     /\ ~r.complete => r.body = "json"
     /\ ~(r.complete /\ r.body = "json") => r.conf = <<>>}

Next ==
  \/ \E r \in UploadRequests : ExpressProcess(r.complete, r.skip, r.hash)
  \/ \E r \in ConfirmRequests : ExpressConfirm(r.complete, r.body, r.conf)
  \/ \E i \in DOMAIN SheetNames : SiteTab(i)
  \/ \E r \in SiteRows : SiteRow(r)
  \/ \E r \in TravelRows : TravelRowStep(r)
  \/ \E r \in RateRows : RateRowStep(r)
  \/ ParseFailure
  \/ ExpressFinish
  \/ ExpressConfirmFinish
  \/ \E r \in ProcessRequests :
       NextProcess(r.authed, r.complete, r.skip, r.hash, r.parsed, r.fetch)
  \/ NextUnknownRegions
  \/ NextAllocate
  \/ NextFinish
  \/ \E r \in ConfirmRequests : NextConfirm(r.complete, r.body, r.conf)
  \/ NextConfirmFinish

Spec == Init /\ [][Next]_vars

(***************************************************************************)
(* Direct calls of the matcher                                             *)
(*                                                                         *)
(* The functions of validation-system.ts and the validators of the request *)
(* handlers, called on their own with arguments drawn from the sets below. *)
(***************************************************************************)
\* The longest text normalizeString is called with.
MaxLen == 3

\* An upper-case letter, a lower-case letter, white space and punctuation.
Alphabet == {"A", "a", " ", "!"}

Texts == UNION {[1..n -> Alphabet] : n \in 0..MaxLen}

\* The name cells the matcher is called with.
MatchInputs ==
  {"Jack Allan", "Jack Alla", "Jack Alan", "Jon Allan", "Week 1", "JACK ALLAN",
   "Jack Allan.", " jack  allan ", "! Jack Allan", "   "}

\* The registries the matcher is called with.
MatchRegistries ==
  {<<>>, <<"Jack Allan">>, <<"Jack Alla">>, KNOWN_EMPLOYEES,
   <<"Jon Allan", "JACK ALLAN", "Jack Alan", "Jack Allan", "Jack Alla", "Jack Allan.">>}

\* The values getValidationThresholds() returns at the time of a call: the
\* defaults and two later settings.
ThresholdSettings ==
  {DefaultSettings.fuzzyMatchThresholds,
   [high |-> 95 * 100, medium |-> 85 * 100, low |-> 60 * 100],
   [high |-> 80 * 100, medium |-> 60 * 100, low |-> 40 * 100]}

\* The configurations a matcher is built with: the employee matcher's, and
\* the one findSimilarRegions builds with its own cutoff.
MatcherConfigs == {FuzzyMatchConfig, [FuzzyMatchConfig EXCEPT !.cutoff = 60 * 100]}

AlgorithmSettings ==
  [levenshtein : BOOLEAN, jaccard : BOOLEAN, wordLevel : BOOLEAN]

\* The registries and name cells of the validators' calls.
ScenarioRegistries == {<<"Jack Allan">>, KNOWN_EMPLOYEES}
ScenarioInputs == {"Jon Allan", "Jack Alan", "Jack Allan"}

ScenarioCache ==
  [validateEmployee |->
     [known \in ScenarioRegistries |->
        [n \in ScenarioInputs |-> validateEmployee(n, known)]],
   headerLike |-> [n \in ScenarioInputs |-> headerLike(trim(NameText[n]))]]

\* every variable but call
program ==
  <<matchCache, deployment, tzShift, knownEmployees, loaded, pendingMatches, results,
    submissions, pc, route, skipDuplicateCheck, fileHash, confirmations,
    allowedRegions, unknownRegions, tab, tabIndex, lineNo, employeeData,
    overtimeRatesByEmployee, observations, preAlloc, response, steps, received,
    classes>>

MatchInit ==
  /\ matchCache = ScenarioCache
  /\ deployment \in {"express", "next"}
  /\ tzShift = 0
  /\ knownEmployees \in ScenarioRegistries
  /\ Idle

\* EnhancedFuzzyMatcher.normalizeString
NormalizeCall(s) ==
  /\ call = NoCall
  /\ call' = [op |-> "normalizeString", str |-> s, result |-> normalizeString(s)]
  /\ UNCHANGED program

\* EnhancedFuzzyMatcher.calculateSimilarity, on two normalized names.  The
\* function has no throw statement: it returns a number for every argument.
SimilarityCall(a, b, enabled) ==
  /\ call = NoCall
  /\ LET str1 == normalizeString(NameText[a])
         str2 == normalizeString(NameText[b])
     IN call' = [op |-> "calculateSimilarity", str1 |-> str1, str2 |-> str2,
                 enabled |-> enabled, threw |-> FALSE,
                 result |-> calculateSimilarity(str1, str2, enabled)]
  /\ UNCHANGED program

\* EnhancedFuzzyMatcher.findMatches
FindMatchesCall(input, candidates, config, thresholds) ==
  /\ call = NoCall
  /\ call' = [op |-> "findMatches", input |-> input, candidates |-> candidates,
              config |-> config, thresholds |-> thresholds,
              result |-> findMatches(input, candidates, config, thresholds,
                                     DefaultSettings.enabledAlgorithms)]
  /\ UNCHANGED program

\* EmployeeValidator.validateEmployee
ValidateEmployeeCall(input, known) ==
  /\ call = NoCall
  /\ call' = [op |-> "validateEmployee", input |-> input, known |-> known,
              result |-> validateEmployee(input, known)]
  /\ UNCHANGED program

\* validateAndMatchEmployee of the deployment's upload route
ResolveCall(input, lineNumber, fileType) ==
  /\ call = NoCall
  /\ LET v == resolve(input, lineNumber, fileType)
     IN /\ call' = [op |-> "validateAndMatchEmployee", input |-> input,
                    line_number |-> lineNumber, file_type |-> fileType,
                    result |-> v.res]
        /\ pendingMatches' = v.pending
  /\ UNCHANGED <<matchCache, deployment, tzShift, knownEmployees, loaded, results,
                 submissions, pc, route, skipDuplicateCheck, fileHash,
                 confirmations, allowedRegions, unknownRegions, tab, tabIndex,
                 lineNo, employeeData, overtimeRatesByEmployee, observations,
                 preAlloc, response, steps, received, classes>>

MatchNext ==
  \/ \E s \in Texts : NormalizeCall(s)
  \/ \E a \in MatchInputs, b \in MatchInputs, enabled \in AlgorithmSettings :
       SimilarityCall(a, b, enabled)
  \/ \E input \in MatchInputs, candidates \in MatchRegistries,
        config \in MatcherConfigs, thresholds \in ThresholdSettings :
       FindMatchesCall(input, candidates, config, thresholds)
  \/ \E input \in MatchInputs, known \in MatchRegistries :
       ValidateEmployeeCall(input, known)
  \/ \E input \in ScenarioInputs, fileType \in {"site_timesheet", "travel_timesheet"} :
       ResolveCall(input, 2, fileType)

MatchSpec == MatchInit /\ [][MatchNext]_vars

(***************************************************************************)
(* Direct calls of the validation classes                                  *)
(***************************************************************************)
\* The error and warning types the validators raise.
ErrorTypes == {"INVALID_REGION", "NO_XERO_REGIONS"}
WarningTypes == {"NO_REGIONS"}

\* The region lists setXeroRegions is called with.
XeroRegionLists == {{}, {"North"}, {"North", "South"}, Range(VALID_REGIONS)}

\* The region sets of a batch.
RegionSets == {{}, {"North"}, {"South", "North"}, {"South", " North ", "Nort"}, {"   "}}

\* the variables the validation classes do not touch
routes ==
  <<matchCache, deployment, tzShift, knownEmployees, loaded, pendingMatches, results,
    submissions, pc, route, skipDuplicateCheck, fileHash, confirmations,
    allowedRegions, unknownRegions, tab, tabIndex, lineNo, employeeData,
    overtimeRatesByEmployee, observations, preAlloc, response, received,
    settings, defaultSettings, settingsShared, settingsReply,
    storage, requests, activeStates, now, issuedStates, usedStates>>

\* new ValidationResultBuilder()
BuilderNew ==
  /\ steps < MaxSteps
  /\ steps' = steps + 1
  /\ builderResult' = NewResult
  /\ UNCHANGED <<routes, xeroRegions, regionCache, call>>

\* ValidationResultBuilder.addError
BuilderAddError(errorType) ==
  /\ steps < MaxSteps
  /\ steps' = steps + 1
  /\ builderResult' = addError(builderResult, Issue(errorType, NoLine))
  /\ UNCHANGED <<routes, xeroRegions, regionCache, call>>

\* ValidationResultBuilder.addWarning
BuilderAddWarning(warningType) ==
  /\ steps < MaxSteps
  /\ steps' = steps + 1
  /\ builderResult' = addWarning(builderResult, Issue(warningType, NoLine))
  /\ UNCHANGED <<routes, xeroRegions, regionCache, call>>

\* ValidationResultBuilder.build
BuilderBuild ==
  /\ call' = [op |-> "build", result |-> builderResult]
  /\ UNCHANGED <<routes, steps, builderResult, xeroRegions, regionCache>>

\* RegionValidator.setXeroRegions
SetXeroRegions(regions) ==
  /\ steps < MaxSteps
  /\ steps' = steps + 1
  /\ xeroRegions' = {trim(RegionText[r]) : r \in regions}
  /\ regionCache' = <<>>
  /\ UNCHANGED <<routes, builderResult, call>>

\* RegionValidator.validateRegion
ValidateRegionCall(regionName, lineNumber) ==
  /\ steps < MaxSteps
  /\ steps' = steps + 1
  /\ LET v == validateRegion(xeroRegions, regionCache, regionName, lineNumber)
     IN /\ call' = [op |-> "validateRegion", regionName |-> regionName,
                    result |-> v.result]
        /\ regionCache' = v.cache
  /\ UNCHANGED <<routes, builderResult, xeroRegions>>

\* RegionValidator.validateRegions
ValidateRegionsCall(regions) ==
  /\ steps < MaxSteps
  /\ steps' = steps + 1
  /\ LET v == validateRegions(xeroRegions, regionCache, regions)
     IN /\ call' = [op |-> "validateRegions", regions |-> regions,
                    xeroRegions |-> xeroRegions, result |-> v.result]
        /\ regionCache' = v.cache
  /\ UNCHANGED <<routes, builderResult, xeroRegions>>

ValidationNext ==
  \/ BuilderNew
  \/ \E t \in ErrorTypes : BuilderAddError(t)
  \/ \E t \in WarningTypes : BuilderAddWarning(t)
  \/ BuilderBuild
  \/ \E regions \in XeroRegionLists : SetXeroRegions(regions)
  \/ \E r \in DOMAIN RegionText : ValidateRegionCall(r, 1)
  \/ \E regions \in RegionSets : ValidateRegionsCall(regions)

ValidationSpec == MatchInit /\ [][ValidationNext]_vars

(***************************************************************************)
(* Direct calls of getWeekStart                                            *)
(***************************************************************************)
\* The entry dates cover this many weeks from the anchor Monday.
MaxWeeks == 8

EntryDates == 0..(7 * MaxWeeks - 1)

\* getWeekStart(new Date(entry_date)).toISOString().split('T')[0], as
\* calculateOvertimeHours computes the week key of an entry
WeekStartCall(date) ==
  /\ call = NoCall
  /\ call' = [op |-> "getWeekStart", entry_date |-> date,
              result |-> getWeekStart(date, tzShift)]
  /\ UNCHANGED program

WeekNext == \E date \in EntryDates : WeekStartCall(date)

\* The server runs in a zone behind UTC or not; no request was received.
WeekSpec == Init /\ [][WeekNext]_vars

(***************************************************************************)
(* Settings: the calls that write them and the calls that read them        *)
(***************************************************************************)
\* What validateEmployee answers under the settings, for the registry and the
\* name cells of the validators' calls: thresholds and algorithms are read at
\* each call, the matcher's configuration was captured when it was built.
cacheUnder(obj, known) ==
  [validateEmployee |->
     [k \in {known} |->
        [n \in ScenarioInputs |->
           IF trim(NameText[n]) = <<>>
             THEN validateEmployee(n, k)
             ELSE findMatches(n, k, FuzzyMatchConfig,
                              obj.validation.fuzzyMatchThresholds,
                              obj.validation.enabledAlgorithms)]],
   headerLike |-> [n \in ScenarioInputs |-> headerLike(trim(NameText[n]))]]

\* A region mapping as the editor sends it.
RegionMap == [Nrth |-> "North"]

\* Request bodies of PATCH /api/settings: the leaves they carry, by path.
PatchBodies ==
  {[p \in {"validation.fuzzyMatchThresholds.high", "validation.fuzzyMatchThresholds.medium",
           "validation.fuzzyMatchThresholds.low"} |->
      CASE p = "validation.fuzzyMatchThresholds.high" -> 80 * 100
        [] p = "validation.fuzzyMatchThresholds.medium" -> 60 * 100
        [] p = "validation.fuzzyMatchThresholds.low" -> 40 * 100],
   [p \in {"validation.fuzzyMatchThresholds.low"} |-> 60 * 100],
   [p \in {"validation.maxSuggestions"} |-> 3],
   [p \in {"validation.enabledAlgorithms.jaccard",
           "validation.enabledAlgorithms.wordLevel"} |-> FALSE],
   [p \in {"xero.regionMapping"} |-> RegionMap]}

\* The path and value arguments of updateSetting.
SettingUpdates ==
  {<<"validation.maxSuggestions", 3>>, <<"validation.maxSuggestions", 99>>}

\* The documents importSettings is called with: text that is no JSON
\* (Undefined), and exported settings.
ImportDocuments ==
  {Undefined, Defined([InitialSettings EXCEPT !.validation.maxSuggestions = 3])}

\* The paths getSetting is called with.
ReadPaths ==
  {"validation.maxSuggestions", "validation.fuzzyMatchThresholds.low",
   "xero.regionMapping"}

\* The registries the validator holds when it is called.
SettingsRegistries ==
  {<<"Jack Alla">>,
   <<"Jon Allan", "JACK ALLAN", "Jack Alan", "Jack Allan", "Jack Alla", "Jack Allan.">>}

\* the variables the settings manager's methods do not touch
managed ==
  <<deployment, tzShift, knownEmployees, loaded, pendingMatches, results,
    submissions, pc, route, skipDuplicateCheck, fileHash, confirmations,
    allowedRegions, unknownRegions, tab, tabIndex, lineNo, employeeData,
    overtimeRatesByEmployee, observations, preAlloc, response, received,
    builderResult, xeroRegions, regionCache,
    storage, requests, activeStates, now, issuedStates, usedStates>>

\* The matcher is built, and the settings are defaults, when the server starts.
SettingsInit ==
  /\ matchCache = cacheUnder(InitialSettings, <<"Jack Allan">>)
  /\ deployment \in {"express", "next"}
  /\ tzShift = 0
  /\ knownEmployees = <<"Jack Allan">>
  /\ Idle

\* A call wrote the settings: what the objects hold afterwards.  The
\* validator reads thresholds and algorithms from the live object.
written(live, defaults, shared, reply) ==
  /\ call = NoCall
  /\ steps < MaxSteps
  /\ steps' = steps + 1
  /\ settings' = live
  /\ defaultSettings' = defaults
  /\ settingsShared' = shared
  /\ settingsReply' = reply
  /\ matchCache' = cacheUnder(live, knownEmployees)
  /\ UNCHANGED <<managed, call>>

\* SettingsManager.updateSetting.  setNestedValue writes into the nested
\* object that the shallow copy shares with this.settings, and with
\* DefaultSettings while this.settings still is a shallow copy of it; the
\* schema is asked afterwards.
UpdateSetting(path, value) ==
  LET newSettings == setNestedValue(settings, path, value)
      defaults == IF settingsShared THEN setNestedValue(defaultSettings, path, value)
                  ELSE defaultSettings
      reply(ok) == [op |-> "updateSetting", path |-> path, value |-> value,
                    before |-> settings, result |-> ok]
  IN IF schemaAccepts(newSettings)
       THEN written(schemaData(newSettings), defaults, FALSE, reply(TRUE))
       ELSE written(newSettings, defaults, settingsShared, reply(FALSE))

\* PATCH /api/settings: SettingsSchema.deepPartial().safeParse(body), then
\* SettingsManager.updateSettings(body), which merges into copies
PatchSettings(body) ==
  LET partialOk == schemaAccepts(mergeDeep(InitialSettings, body))
      newSettings == mergeDeep(settings, body)
      ok == partialOk /\ schemaAccepts(newSettings)
      reply == [op |-> "updateSettings", body |-> body, result |-> ok]
  IN IF ok
       THEN written(schemaData(newSettings), defaultSettings, FALSE, reply)
       ELSE written(settings, defaultSettings, settingsShared, reply)

\* SettingsManager.resetSettings
ResetSettings ==
  /\ call = NoCall
  /\ written(defaultSettings, defaultSettings, TRUE,
             [op |-> "resetSettings", result |-> TRUE])

\* SettingsManager.importSettings
ImportSettings(document) ==
  LET ok == document # Undefined /\ schemaAccepts(document[1])
      reply == [op |-> "importSettings", result |-> ok]
  IN IF ok
       THEN written(schemaData(document[1]), defaultSettings, FALSE, reply)
       ELSE written(settings, defaultSettings, settingsShared, reply)

\* SettingsManager.getSetting
GetSetting(path) ==
  /\ call = NoCall
  /\ call' = [op |-> "getSetting", path |-> path,
              result |-> getNestedValue(settings, path)]
  /\ UNCHANGED <<matchCache, steps, settings, defaultSettings, settingsShared,
                 settingsReply, managed>>

\* employeeValidator.validateEmployee under the settings in force
ValidateUnderSettings(input, known) ==
  /\ call = NoCall
  /\ call' = [op |-> "validateEmployee", input |-> input, known |-> known,
              result |-> findMatches(input, known, FuzzyMatchConfig,
                                     settings.validation.fuzzyMatchThresholds,
                                     settings.validation.enabledAlgorithms)]
  /\ UNCHANGED <<matchCache, steps, settings, defaultSettings, settingsShared,
                 settingsReply, managed>>

SettingsNext ==
  \/ \E u \in SettingUpdates : UpdateSetting(u[1], u[2])
  \/ \E body \in PatchBodies : PatchSettings(body)
  \/ ResetSettings
  \/ \E document \in ImportDocuments : ImportSettings(document)
  \/ \E path \in ReadPaths : GetSetting(path)
  \/ \E input \in {"Jon Allan", "Jack Allan"}, known \in SettingsRegistries :
       ValidateUnderSettings(input, known)
  \/ \E input \in ScenarioInputs : ResolveCall(input, 2, "site_timesheet")

SettingsSpec == SettingsInit /\ [][SettingsNext]_vars

(***************************************************************************)
(* The OAuth state manager: generateAuthUrl and handleCallback              *)
(***************************************************************************)

\* AuthManager's configuration
STATE_EXPIRY_MINUTES == 15
MAX_ACTIVE_STATES == 10

\* How many state values crypto.randomBytes hands out in a behaviour, how
\* far a step of the clock goes and how many such steps are taken.
MaxAuthStates == 3
TickMinutes == 8
MaxTicks == 3

\* The values of the state parameter: the ones randomBytes(32) draws (taken
\* as never repeating), of which the ones not drawn yet are the unknown
\* values a callback may carry, and the absent parameter.
StateValues == 1..MaxAuthStates
MissingState == 0

AuthState(state, created_at) ==
  [state |-> state, created_at |-> created_at,
   expires_at |-> created_at + STATE_EXPIRY_MINUTES]

\* this.activeStates.get(state): the entry's position, 0 for undefined
activeIndex(active, state) ==
  IF \E i \in DOMAIN active : active[i].state = state
    THEN CHOOSE i \in DOMAIN active : active[i].state = state
    ELSE 0

\* this.activeStates.delete(state)
deleteState(active, state) ==
  SelectSeq(active, LAMBDA a : a.state # state)

\* AuthManager.cleanupExpiredStates
cleanupExpiredStates(active, date) ==
  SelectSeq(active, LAMBDA a : ~(date > a.expires_at))

unauthenticated ==
  <<matchCache, deployment, tzShift, knownEmployees, loaded, pendingMatches,
    results, submissions, pc, route, skipDuplicateCheck, fileHash,
    confirmations, allowedRegions, unknownRegions, tab, tabIndex, lineNo,
    employeeData, overtimeRatesByEmployee, observations, preAlloc, response,
    steps, received, builderResult, xeroRegions, regionCache, settings,
    defaultSettings, settingsShared, settingsReply, storage, requests>>

\* AuthManager.generateAuthUrl; buildConsentUrl answers or throws
GenerateAuthUrl(state, built) ==
  LET authState == AuthState(state, now)
      cleaned == cleanupExpiredStates(activeStates, now)
      room == IF Len(cleaned) >= MAX_ACTIVE_STATES THEN Tail(cleaned) ELSE cleaned
  IN /\ \A a \in issuedStates : a.state # state
     /\ activeStates' = Append(room, authState)
     /\ issuedStates' = issuedStates \cup {authState}
     /\ call' = [op |-> "generateAuthUrl", threw |-> ~built,
                 state |-> IF built THEN state ELSE MissingState]
     /\ UNCHANGED <<unauthenticated, now, usedStates>>

\* AuthManager.handleCallback(callbackUrl, receivedState); outcome is what
\* xeroClient.apiCallback and readTokenSet do with the code: "tokens",
\* "none" (no token set) or "throws".  The call is recorded with what was
\* true of the state when it arrived.
HandleCallback(receivedState, outcome) ==
  LET i == activeIndex(activeStates, receivedState)
      checked == receivedState # MissingState
      unknown == checked /\ i = 0
      expired == checked /\ i # 0 /\ now > activeStates[i].expires_at
      exchanged == ~unknown /\ ~expired
      reply == [op |-> "handleCallback", receivedState |-> receivedState,
                exchanged |-> exchanged,
                success |-> exchanged /\ outcome = "tokens",
                issued |-> \E a \in issuedStates : a.state = receivedState,
                expired |-> \E a \in issuedStates :
                               a.state = receivedState /\ now > a.expires_at,
                used |-> receivedState \in usedStates]
  IN /\ activeStates' = IF checked /\ ~unknown
                          THEN deleteState(activeStates, receivedState)
                          ELSE activeStates
     /\ usedStates' = IF exchanged /\ checked
                        THEN usedStates \cup {receivedState}
                        ELSE usedStates
     /\ call' = reply
     /\ UNCHANGED <<unauthenticated, now, issuedStates>>

\* time passes
Tick ==
  /\ now < TickMinutes * MaxTicks
  /\ now' = now + TickMinutes
  /\ UNCHANGED <<unauthenticated, activeStates, issuedStates, usedStates, call>>

AuthNext ==
  \/ \E state \in StateValues, built \in BOOLEAN : GenerateAuthUrl(state, built)
  \/ \E receivedState \in StateValues \cup {MissingState},
        outcome \in {"tokens", "none", "throws"} :
       HandleCallback(receivedState, outcome)
  \/ Tick

AuthSpec == Init /\ [][AuthNext]_vars

(***************************************************************************)
(* Concurrent uploads: /api/process-timesheets requests whose handlers are  *)
(* suspended at their awaits                                               *)
(***************************************************************************)

\* How many upload requests arrive in a behaviour.
MaxRequests == 2

\* The uploads: generateFileHash of the three files, and what processing
\* those files comes to (a result to store, or names to confirm).
ConcurrentUploads == {"h1", "h2"}

processingOf(hash) == IF hash = "h1" THEN "result" ELSE "needsConfirmation"

\* export const storage = process.env.DATABASE_URL ? new DatabaseStorage()
\*                                                 : new MemStorage()
StorageKinds == {"mem", "db"}

UploadRequest(hash, skip) ==
  [hash |-> hash, skip |-> skip, pc |-> "received", response |-> "none"]

\* An await of the handler gives way to other requests when what is awaited
\* is input or output: the queries of DatabaseStorage, and the Xero calls of
\* the app route between its duplicate check and its store.  The promises
\* of MemStorage are resolved already, the handler goes on before another
\* request is taken up.
suspends == deployment = "next" \/ storage = "db"

mayRun(i) ==
  suspends \/ \A j \in DOMAIN requests \ {i} : requests[j].pc \in {"received", "done"}

sequential ==
  <<matchCache, deployment, tzShift, knownEmployees, loaded, pendingMatches,
    pc, route, skipDuplicateCheck, fileHash, confirmations, allowedRegions,
    unknownRegions, tab, tabIndex, lineNo, employeeData,
    overtimeRatesByEmployee, observations, preAlloc, response, steps,
    received, call, builderResult, xeroRegions, regionCache, settings,
    defaultSettings, settingsShared, settingsReply, activeStates, now,
    issuedStates, usedStates>>

\* the server starts and builds its storage
StartServer(kind) ==
  /\ storage = "unset"
  /\ storage' = kind
  /\ UNCHANGED <<sequential, requests, submissions, results>>

\* a request arrives
Arrive(hash, skip) ==
  /\ storage # "unset"
  /\ Len(requests) < MaxRequests
  /\ requests' = Append(requests, UploadRequest(hash, skip))
  /\ UNCHANGED <<sequential, storage, submissions, results>>

\* the duplicate check: await storage.getSubmissionByHash(fileHash)
CheckDuplicate(i) ==
  /\ i \in DOMAIN requests
  /\ requests[i].pc = "received"
  /\ mayRun(i)
  /\ requests' =
       IF ~requests[i].skip /\ requests[i].hash \in submissions
         THEN [requests EXCEPT ![i].pc = "done", ![i].response = "duplicate"]
         ELSE [requests EXCEPT ![i].pc = "checked"]
  /\ UNCHANGED <<sequential, storage, submissions, results>>

\* the sheets are read; pending names end the request
ProcessFiles(i) ==
  /\ i \in DOMAIN requests
  /\ requests[i].pc = "checked"
  /\ mayRun(i)
  /\ requests' =
       IF processingOf(requests[i].hash) = "needsConfirmation"
         THEN [requests EXCEPT ![i].pc = "done", ![i].response = "needsConfirmation"]
         ELSE [requests EXCEPT ![i].pc = "processed"]
  /\ UNCHANGED <<sequential, storage, submissions, results>>

\* await storage.createProcessingResult(validatedResult)
StoreResult(i) ==
  /\ i \in DOMAIN requests
  /\ requests[i].pc = "processed"
  /\ mayRun(i)
  /\ results' = results + 1
  /\ requests' =
       IF requests[i].skip
         THEN [requests EXCEPT ![i].pc = "done", ![i].response = "stored"]
         ELSE [requests EXCEPT ![i].pc = "saved"]
  /\ UNCHANGED <<sequential, storage, submissions>>

\* await storage.createSubmission({file_hash: fileHash, ...}), then the
\* stored result is the response
RecordSubmission(i) ==
  /\ i \in DOMAIN requests
  /\ requests[i].pc = "saved"
  /\ mayRun(i)
  /\ submissions' = submissions \cup {requests[i].hash}
  /\ requests' = [requests EXCEPT ![i].pc = "done", ![i].response = "stored"]
  /\ UNCHANGED <<sequential, storage, results>>

ConcurrentNext ==
  \/ \E kind \in StorageKinds : StartServer(kind)
  \/ \E hash \in ConcurrentUploads, skip \in BOOLEAN : Arrive(hash, skip)
  \/ \E i \in 1..MaxRequests : CheckDuplicate(i)
  \/ \E i \in 1..MaxRequests : ProcessFiles(i)
  \/ \E i \in 1..MaxRequests : StoreResult(i)
  \/ \E i \in 1..MaxRequests : RecordSubmission(i)

ConcurrentSpec == Init /\ [][ConcurrentNext]_vars

(***************************************************************************)
(* The direct pass and the confirmation pass over one batch                *)
(***************************************************************************)

\* How many rows of each sheet a batch holds at most.
MaxRows == 1

\* the sequences of at most MaxRows members of a set of rows
RowLists(rows) == UNION {[1..n -> rows] : n \in 0..MaxRows}

\* The batches: the rows of one accepted tab of the site workbook, of the
\* travel sheet and of the overtime-rate sheet.
Batches ==
  [tab : {"North"}, site : RowLists(SiteRows), travel : RowLists(TravelRows),
   rates : RowLists(RateRows)]

\* validateAndMatchEmployee as the handler of a route sees it
resolveIn(dep, rt, conf, known, input, lineNumber, fileType, pending) ==
  IF dep = "express"
    THEN expressValidateAndMatchEmployee(input, lineNumber, fileType, pending, known)
  ELSE IF rt = "process"
    THEN nextValidateAndMatchEmployee(input, lineNumber, fileType, pending, known)
  ELSE confirmValidateAndMatchEmployee(conf, input, lineNumber, fileType, pending, known)

\* What a pass holds while it reads its sheets: employeeData, pendingMatches,
\* overtimeRatesByEmployee, and whether a name asked for confirmation.
PassState(data, pending, rates, asked) ==
  [data |-> data, pending |-> pending, rates |-> rates, asked |-> asked]

\* one row of a sheet, read by a pass
passRow(dep, rt, conf, known, regionName, fileType, r, lineNumber, s) ==
  LET v == resolveIn(dep, rt, conf, known, r.name, lineNumber, fileType, s.pending)
      m == v.res.match
      before == entriesOf(s.data, m)
      after == IF fileType = "site_timesheet"
                 THEN processSiteRow(before, regionName, r.cells, 0, dep = "express")
               ELSE IF fileType = "travel_timesheet"
                 THEN IF dep = "express" THEN expressTravelEntries(before, r)
                      ELSE nextTravelEntries(before, r)
               ELSE IF dep = "express" /\ m \in DOMAIN s.data
                 THEN applyRate(s.data[m], r.rate)
               ELSE before
      kept == fileType # "overtime_rates" \/ (dep = "express" /\ m \in DOMAIN s.data)
  IN PassState(IF m = null \/ ~kept THEN s.data ELSE withEntries(s.data, m, after),
               v.pending,
               IF fileType = "overtime_rates" /\ dep = "next" /\ m # null
                 THEN withEntries(s.rates, m, r.rate)
                 ELSE s.rates,
               s.asked \/ v.res.needsConfirmation)

RECURSIVE passRows(_, _, _, _, _, _, _, _, _)
\* the rows of a sheet from row i on, read by a pass
passRows(dep, rt, conf, known, regionName, fileType, rows, i, s) ==
  IF i > Len(rows) THEN s
  ELSE passRows(dep, rt, conf, known, regionName, fileType, rows, i + 1,
                passRow(dep, rt, conf, known, regionName, fileType, rows[i], i + 1, s))

\* what a pass answers: needs_confirmation, or the ledger it stores
PassResult(status, ledger, asked) ==
  [status |-> status, ledger |-> ledger, asked |-> asked]

\* A whole pass of a route over a batch: server/routes.ts reads site, travel
\* and rates and allocates at the end; app/api/process-timesheets reads site
\* and rates, checks the pending list, allocates, reads travel and applies
\* the rates; app/api/processing-results reads the site sheet and allocates.
pass(dep, rt, conf, known, tz, batch) ==
  LET start == PassState(<<>>, <<>>, <<>>, FALSE)
      site == passRows(dep, rt, conf, known, batch.tab, "site_timesheet",
                       batch.site, 1, start)
  IN IF dep = "express"
       THEN LET travel == passRows(dep, rt, conf, known, batch.tab, "travel_timesheet",
                                   batch.travel, 1, site)
                rates == passRows(dep, rt, conf, known, batch.tab, "overtime_rates",
                                  batch.rates, 1, travel)
            IN IF rt = "process" /\ Len(rates.pending) > 0
                 THEN PassResult("needs_confirmation", <<>>, rates.asked)
                 ELSE PassResult("ok", calculateOvertimeHours(rates.data, tz, TRUE),
                                 rates.asked)
     ELSE IF rt = "process"
       THEN LET rates == passRows(dep, rt, conf, known, batch.tab, "overtime_rates",
                                  batch.rates, 1, site)
                allocated == [rates EXCEPT
                                !.data = calculateOvertimeHours(rates.data, tz, FALSE)]
                travel == passRows(dep, rt, conf, known, batch.tab, "travel_timesheet",
                                   batch.travel, 1, allocated)
            IN IF Len(rates.pending) > 0
                 THEN PassResult("needs_confirmation", <<>>, rates.asked)
                 ELSE PassResult("ok",
                                 [n \in DOMAIN travel.data |->
                                    applyRate(travel.data[n], rateOf(travel.rates, n))],
                                 travel.asked)
     ELSE PassResult("ok", calculateOvertimeHours(site.data, tz, FALSE), site.asked)

\* Both passes over one batch, the confirmation pass with an empty mapping,
\* both with the registry the deployment's upload route works with.
ComparePasses(batch) ==
  /\ call = NoCall
  /\ LET known == IF deployment = "express" THEN KNOWN_EMPLOYEES ELSE XeroEmployees
     IN call' = [op |-> "passes", batch |-> batch,
                 direct |-> pass(deployment, "process", <<>>, known, tzShift, batch),
                 confirm |-> pass(deployment, "confirm", <<>>, known, tzShift, batch)]
  /\ UNCHANGED program

PassNext == \E batch \in Batches : ComparePasses(batch)

PassSpec == Init /\ [][PassNext]_vars

(***************************************************************************)
(* Properties                                                              *)
(***************************************************************************)
\* A run has ended and stored its ledger; response.ledger is the final ledger.
Consolidated == pc = "idle" /\ response.status = "ok"

\* The Monday of the calendar week of a day (day 0 is a Monday).
mondayOf(day) == day - (day % 7)

\* The weeks the dates of the sheets fall into.
Weeks == {0, 7}

RECURSIVE hoursIn(_, _, _)
hoursIn(entries, type, week) ==
  IF entries = <<>> THEN 0
  ELSE (IF Head(entries).hour_type = type /\ mondayOf(Head(entries).entry_date) = week
          THEN Head(entries).hours ELSE 0)
       + hoursIn(Tail(entries), type, week)

RECURSIVE hoursAt(_, _, _, _)
hoursAt(entries, type, date, region) ==
  IF entries = <<>> THEN 0
  ELSE (IF /\ Head(entries).hour_type = type
           /\ Head(entries).entry_date = date
           /\ Head(entries).region_name = region
          THEN Head(entries).hours ELSE 0)
       + hoursAt(Tail(entries), type, date, region)

OfType(entries, type) == {i \in DOMAIN entries : entries[i].hour_type = type}

\* C1: for every identity and every Monday-anchored week, the REGULAR plus the
\* OVERTIME hours of the final ledger equal the REGULAR hours the week had when
\* the allocation started, and the week's REGULAR hours are at most 40.
C1_Conservation ==
  Consolidated =>
    \A n \in DOMAIN response.ledger : \A w \in Weeks :
      /\ hoursIn(response.ledger[n], "REGULAR", w)
           + hoursIn(response.ledger[n], "OVERTIME", w)
         = hoursIn(entriesOf(preAlloc, n), "REGULAR", w)
      /\ hoursIn(response.ledger[n], "REGULAR", w) <= WeeklyThreshold

\* Scenario B: five REGULAR entries of 9 hours, Monday to Friday, one region
IsScenarioB(entries) ==
  /\ Len(entries) = 5
  /\ \A i \in 1..5 : /\ entries[i].hour_type = "REGULAR"
                     /\ entries[i].entry_date = i - 1
                     /\ entries[i].hours = 9
                     /\ entries[i].region_name = entries[1].region_name

\* C2: an entry is reduced only after every REGULAR entry of the same identity
\* and week with a later date has been reduced to 0, whatever the insertion
\* order and the regions; and Scenario B ends with Monday to Thursday at 9h,
\* Friday at 4h REGULAR and one 5h OVERTIME entry dated Friday.
C2_LatestDateFirst ==
  Consolidated =>
    \A n \in DOMAIN preAlloc :
      LET before == preAlloc[n]
          after == entriesOf(response.ledger, n)
          left(e) == hoursAt(after, "REGULAR", e.entry_date, e.region_name)
      IN /\ \A i \in OfType(before, "REGULAR") : \A j \in OfType(before, "REGULAR") :
              ( /\ mondayOf(before[i].entry_date) = mondayOf(before[j].entry_date)
                /\ before[j].entry_date > before[i].entry_date
                /\ before[j].hours > 0
                /\ left(before[i]) < before[i].hours )
              => left(before[j]) = 0
         /\ IsScenarioB(before) =>
              /\ \A d \in 0..3 : hoursAt(after, "REGULAR", d, before[1].region_name) = 9
              /\ hoursAt(after, "REGULAR", 4, before[1].region_name) = 4
              /\ Cardinality(OfType(after, "OVERTIME")) = 1
              /\ hoursAt(after, "OVERTIME", 4, before[1].region_name) = 5

\* The REGULAR hours the site rows of this run added for an identity.
RECURSIVE siteRegular(_, _)
siteRegular(obs, n) ==
  IF obs = <<>> THEN 0
  ELSE (IF Head(obs).file_type = "site_timesheet" /\ Head(obs).res.match = n
          THEN Head(obs).hours ELSE 0)
       + siteRegular(Tail(obs), n)

\* C3: hours of the travel sheet never count toward the weekly threshold and
\* never become OVERTIME (an identity has no more OVERTIME than its site-sheet
\* REGULAR hours exceed 40), and every TRAVEL and HOLIDAY entry has the same
\* hours before and after the allocation.
C3_TravelOutsideAllocation ==
  Consolidated =>
    \A n \in DOMAIN response.ledger :
      LET before == entriesOf(preAlloc, n)
          after == response.ledger[n]
      IN /\ hoursIn(after, "OVERTIME", 0) + hoursIn(after, "OVERTIME", 7)
              <= Max2(0, siteRegular(observations, n) - WeeklyThreshold)
         /\ \A i \in OfType(before, "TRAVEL") \cup OfType(before, "HOLIDAY") :
              hoursAt(after, before[i].hour_type, before[i].entry_date,
                      before[i].region_name)
              = hoursAt(before, before[i].hour_type, before[i].entry_date,
                        before[i].region_name)

\* The observations of the current run that the validator flagged.
Flagged == {i \in DOMAIN observations : observations[i].res.needsConfirmation}

\* the pending entry p reports the observation o
Reports(p, o) ==
  /\ p.input_name = o.input
  /\ p.file_type = o.file_type
  /\ suggestionNames(p.suggestions) = o.res.suggestions
  /\ \E k \in DOMAIN observations :
       /\ observations[k].input = o.input
       /\ observations[k].file_type = o.file_type
       /\ observations[k].line_number = p.line_number

\* C4: a direct run in which an observation of any sheet needs confirmation
\* answers needs_confirmation, lists every such (input, source) with a line
\* number and the ranked suggestions, and stores neither a processing result
\* nor a submission.
C4_PendingHaltsRun ==
  ( /\ pc = "idle" /\ route = "process"
    /\ response.status \in {"ok", "needs_confirmation"}
    /\ Flagged # {} )
  => /\ response.status = "needs_confirmation"
     /\ ~response.stored /\ ~response.submitted
     /\ \A i \in Flagged : \E k \in DOMAIN response.pendingMatches :
          Reports(response.pendingMatches[k], observations[i])

\* C5: in a run with a confirmations mapping, an input that is a key of the
\* mapping resolves to the mapped value with tier HIGH, score 100 and no
\* suggestions, or, when the value is null, is skipped and leaves the ledger
\* as it was.
C5_MappingResolves ==
  route = "confirm" =>
    \A i \in DOMAIN observations :
      LET o == observations[i]
      IN o.input \in DOMAIN confirmations =>
           IF confirmations[o.input] # null
             THEN /\ o.res.match = confirmations[o.input]
                  /\ o.res.confidence = "HIGH"
                  /\ o.res.score = 10000
                  /\ o.res.suggestions = <<>>
             ELSE o.res.match = null /\ ~o.touched

\* C6: every entry of a returned Pending set was created from an observation
\* of the run that returns it.
C6_PendingOfOwnBatch ==
  response.status = "needs_confirmation" =>
    \A k \in DOMAIN response.pendingMatches :
      \E i \in DOMAIN observations :
        /\ observations[i].input = response.pendingMatches[k].input_name
        /\ observations[i].file_type = response.pendingMatches[k].file_type
        /\ observations[i].line_number = response.pendingMatches[k].line_number

\* C7: when a confirmation pass ends, no Pending entry exists for an input
\* the pass had a mapping entry for.
C7_MappedEntryConsumed ==
  (pc = "idle" /\ route = "confirm" /\ response.status = "ok") =>
    \A k \in DOMAIN pendingMatches :
      pendingMatches[k].input_name \notin DOMAIN confirmations

\* The observation is of an input that needs confirmation: its best
\* suggestion scored at least 70 and less than 95.
IsPendingInput(o) ==
  /\ Len(o.res.suggestions) > 0
  /\ o.res.score >= StrongSuggestionScore
  /\ o.res.score < AutoAcceptScore

\* C8: in a confirmation pass, an input that needs confirmation and is absent
\* from the mapping is adopted only as its top suggestion and only when that
\* is tier HIGH with score at least 90; otherwise it leaves the ledger as it
\* was.
C8_UnmappedDefault ==
  route = "confirm" =>
    \A i \in DOMAIN observations :
      LET o == observations[i]
      IN (o.input \notin DOMAIN confirmations /\ IsPendingInput(o)) =>
           IF o.res.confidence = "HIGH"
                /\ o.res.score >= DefaultSettings.fuzzyMatchThresholds.high
             THEN o.res.match \in {null, o.res.suggestions[1]}
             ELSE o.res.match = null /\ ~o.touched

\* C9: every entry of the final ledger has hours greater than 0.
C9_PositiveHours ==
  Consolidated =>
    \A n \in DOMAIN response.ledger : \A i \in DOMAIN response.ledger[n] :
      response.ledger[n][i].hours > 0

\* the aggregation key of an entry
KeyOf(e) == <<e.entry_date, e.region_name, e.hour_type>>

\* C10: the final ledger holds at most one entry per identity, date, region
\* and category, for all four categories.
C10_OneEntryPerKey ==
  Consolidated =>
    \A n \in DOMAIN response.ledger :
      \A i \in DOMAIN response.ledger[n] : \A j \in DOMAIN response.ledger[n] :
        KeyOf(response.ledger[n][i]) = KeyOf(response.ledger[n][j]) => i = j


\* the HOLIDAY entries of a ledger for one date and region
holidaysAt(entries, date, region) ==
  {i \in OfType(entries, "HOLIDAY") :
     entries[i].entry_date = date /\ entries[i].region_name = region}

\* C11: the final ledger holds exactly one HOLIDAY entry, of the holiday's
\* hours, for every date and region for which a site row of the identity
\* carried a holiday marker, however often the marker was repeated and
\* whatever markers the same date had in other regions; and it never holds
\* two HOLIDAY entries for the same date and region.
C11_OneHolidayPerRegion ==
  Consolidated =>
    /\ \A n \in DOMAIN response.ledger :
         \A i \in OfType(response.ledger[n], "HOLIDAY") :
           holidaysAt(response.ledger[n], response.ledger[n][i].entry_date,
                      response.ledger[n][i].region_name) = {i}
    /\ \A k \in DOMAIN observations :
         LET o == observations[k]
         IN o.res.match # null =>
              \A m \in o.markers :
                /\ o.res.match \in DOMAIN response.ledger
                /\ \E i \in holidaysAt(response.ledger[o.res.match], m[1], m[2]) :
                     response.ledger[o.res.match][i].hours = HolidayHours


\* C12: a confirmation pass whose confirmations field is not JSON, or is JSON
\* but no object that maps input texts to a name or null, reads no sheet and
\* builds no ledger: it is answered as a bad request, without a ledger and
\* without a stored processing result.
C12_MalformedPayloadAborts ==
  route = "confirm" /\ received.body \in {"malformed", "array"} =>
    /\ employeeData = <<>>
    /\ pc = "idle" => /\ response.status = "bad_request"
                      /\ response.ledger = <<>>
                      /\ ~response.stored


\* The validator of the upload route was called for "Jon Allan" under the
\* registry ["Jack Allan"].
ScenarioA ==
  /\ call.op = "validateAndMatchEmployee"
  /\ call.input = "Jon Allan"
  /\ knownEmployees = <<"Jack Allan">>

\* C13 as stated: resolving "Jon Allan" against ["Jack Allan"] leaves a
\* pending confirmation entry for it whose top suggestion is "Jack Allan"
\* with a score from 70 up to, but not including, 95.
C13_ScenarioAPending ==
  ScenarioA =>
    \E i \in DOMAIN pendingMatches :
      /\ pendingMatches[i].input_name = "Jon Allan"
      /\ Len(pendingMatches[i].suggestions) > 0
      /\ pendingMatches[i].suggestions[1].name = "Jack Allan"
      /\ pendingMatches[i].suggestions[1].score >= 70 * 100
      /\ pendingMatches[i].suggestions[1].score < 95 * 100

\* C13 as the code has it: resolving "Jon Allan" against ["Jack Allan"] scores
\* 61.75 for "Jack Allan", which is tier LOW: the name is not adopted, needs no
\* confirmation, and no pending confirmation entry is created for it.
C13_ScenarioALow ==
  ScenarioA =>
    /\ matchCache.validateEmployee[knownEmployees]["Jon Allan"].suggestions
         = <<[name |-> "Jack Allan", score |-> 6175]>>
    /\ call.result.confidence = "LOW"
    /\ call.result.score = 6175
    /\ call.result.match = null
    /\ ~call.result.needsConfirmation
    /\ \A i \in DOMAIN pendingMatches : pendingMatches[i].input_name # "Jon Allan"

C13_Witness == ScenarioA /\ call.result.confidence = "LOW" /\ pendingMatches = <<>>


\* The text left of a name when letter case, punctuation and leading, trailing
\* and repeated white space are disregarded.
sameUpToCasePunctuationSpace(a, b) ==
  LET bare(s) == trim(collapseSpaces(removePunctuation(MapSeq(NameText[s], toLowerCase))))
  IN bare(a) = bare(b)

\* C14: when the validated name and a name of the registry differ only in
\* letter case, punctuation characters and extra white space, the match has
\* score 100, tier HIGH and needs no confirmation.
C14_EquivalentNamesMatchFully ==
  (/\ call.op = "validateEmployee"
   /\ trim(NameText[call.input]) # <<>>
   /\ \E i \in DOMAIN call.known : sameUpToCasePunctuationSpace(call.input, call.known[i]))
    => /\ call.result.confidence_score = 100 * 100
       /\ call.result.confidence = "HIGH"
       /\ ~call.result.requires_confirmation

\* C15: normalizing a normalized string changes nothing.
C15_NormalizeIdempotent ==
  call.op = "normalizeString" => normalizeString(call.result) = call.result


\* The best score a candidate has against the input, or -1 when no candidate
\* reaches the cutoff.
bestScore(input, candidates, cutoff) ==
  LET scoreOf(c) == calculateSimilarity(normalizeString(NameText[input]),
                                        normalizeString(NameText[c]),
                                        DefaultSettings.enabledAlgorithms)
      reached == {scoreOf(candidates[i]) : i \in DOMAIN candidates} \cap
                 {x \in 0..(100 * 100) : x >= cutoff}
  IN IF reached = {} THEN -1 ELSE CHOOSE x \in reached : \A y \in reached : y <= x

\* C16: for a non-blank input, under thresholds low <= medium <= high <= 95
\* read at the time of the call, the best score s that reaches the cutoff
\* decides the tier: s >= 95 is HIGH without confirmation, high <= s < 95 is
\* HIGH with confirmation, medium <= s < high is MEDIUM, low <= s < medium is
\* LOW, s < low is NO_MATCH; no candidate at the cutoff is NO_MATCH with
\* confirmation.
C16_TiersFollowThresholds ==
  (call.op = "findMatches" /\ trim(NameText[call.input]) # <<>>) =>
    LET s == bestScore(call.input, call.candidates, call.config.cutoff)
        t == call.thresholds
        r == call.result
    IN /\ s = -1 => r.confidence = "NO_MATCH" /\ r.requires_confirmation
       /\ s >= 95 * 100 => r.confidence = "HIGH" /\ ~r.requires_confirmation
       /\ (t.high <= s /\ s < 95 * 100) => r.confidence = "HIGH" /\ r.requires_confirmation
       /\ (t.medium <= s /\ s < t.high) => r.confidence = "MEDIUM"
       /\ (t.low <= s /\ s < t.medium) => r.confidence = "LOW"
       /\ (0 <= s /\ s < t.low) => r.confidence = "NO_MATCH"

\* A score of 91.71 is MEDIUM once the high threshold was set to 95, and a
\* candidate at the cutoff of 50 is NO_MATCH once the low threshold is 60.
C16_Witness ==
  /\ call.op = "findMatches"
  /\ call.thresholds # DefaultSettings.fuzzyMatchThresholds
  /\ \/ call.result.confidence = "MEDIUM" /\ call.result.confidence_score >= 90 * 100
     \/ call.result.confidence = "NO_MATCH" /\ call.result.suggestions # <<>>


\* C17: a match result names a matched employee exactly when its tier is
\* HIGH, MEDIUM or LOW, and the name is then the first suggestion's; under
\* NO_MATCH it names none.
C17_MatchedIffTier ==
  call.op = "findMatches" =>
    LET r == call.result
    IN /\ r.matched_name # null <=> r.confidence \in {"HIGH", "MEDIUM", "LOW"}
       /\ r.matched_name # null =>
            r.suggestions # <<>> /\ r.matched_name = r.suggestions[1].name
       /\ r.confidence = "NO_MATCH" => r.matched_name = null

\* C18: with all three algorithms disabled, the similarity of two different
\* normalized strings is a configuration error and no score.
C18_NoAlgorithmIsError ==
  (/\ call.op = "calculateSimilarity"
   /\ call.str1 # call.str2
   /\ ~call.enabled.levenshtein /\ ~call.enabled.jaccard /\ ~call.enabled.wordLevel)
    => call.threw


\* The candidates' scores against an input, by place in the registry.
RECURSIVE candidateScores(_, _)
candidateScores(input, candidates) ==
  IF candidates = <<>> THEN <<>>
  ELSE <<calculateSimilarity(normalizeString(NameText[input]),
                             normalizeString(NameText[Head(candidates)]),
                             DefaultSettings.enabledAlgorithms)>>
         \o candidateScores(input, Tail(candidates))

\* The candidates scoring at least the cutoff, each at the place its score
\* and, among equal scores, its place in the registry give it, cut to
\* max_suggestions.
rankedSuggestions(sc, candidates, config) ==
  LET passing == {i \in DOMAIN candidates : sc[i] >= config.cutoff}
      before(i, j) == sc[i] > sc[j] \/ (sc[i] = sc[j] /\ i < j)
      place(i) == 1 + Cardinality({j \in passing : before(j, i)})
      n == Min2(Cardinality(passing), config.max_suggestions)
  IN [k \in 1..n |->
        LET i == CHOOSE i \in passing : place(i) = k
        IN [name |-> candidates[i], score |-> sc[i]]]

\* The suggestions findMatches owes for an input.
expectedSuggestions(input, candidates, config) ==
  rankedSuggestions(candidateScores(input, candidates), candidates, config)

\* C19: findMatches suggests exactly the candidates that score at least the
\* cutoff, best score first, equal scores in registry order, cut to
\* max_suggestions; its confidence score is the first suggestion's score, or
\* 0 when there is none; a blank input has no suggestion and score 0.
C19_SuggestionsRanked ==
  call.op = "findMatches" =>
    LET r == call.result
    IN /\ r.suggestions =
            IF trim(NameText[call.input]) = <<>> THEN <<>>
            ELSE expectedSuggestions(call.input, call.candidates, call.config)
       /\ r.confidence_score =
            IF r.suggestions = <<>> THEN 0 ELSE r.suggestions[1].score

\* Six candidates reach the cutoff, three of them with the same score, and
\* the sixth is cut off.
C19_Witness ==
  /\ call.op = "findMatches"
  /\ Len(call.candidates) > call.config.max_suggestions
  /\ Len(call.result.suggestions) = call.config.max_suggestions
  /\ call.result.suggestions[1].score = call.result.suggestions[3].score
  /\ call.result.suggestions[1].name = "JACK ALLAN"
  /\ call.result.suggestions[2].name = "Jack Allan"
  /\ call.result.suggestions[5].score < call.result.suggestions[4].score


\* C20: a batch for which no employee list was obtained (no connection, or
\* the fetch failed) is matched against no employee: none of its rows is
\* resolved to, or offered, a name of an earlier batch's registry.
C20_RegistryOfOwnBatch ==
  (/\ deployment = "next"
   /\ route = "process"
   /\ received.fetch \in {"no_client", "failed"})
    => \A i \in DOMAIN observations :
         /\ observations[i].res.match = null
         /\ observations[i].res.suggestions = <<>>


\* The issues of one type among the errors and warnings of a result.
issuesOfType(result, errorType) ==
  SelectSeq(result.errors \o result.warnings, LAMBDA e : e.error_type = errorType)

\* C21: when the region registry is empty, validating the regions of a batch
\* fails no region individually (the result has no error) and flags the
\* empty registry exactly once, however many regions the batch has.
C21_EmptyRegistryFlaggedOnce ==
  (/\ call.op = "validateRegions"
   /\ call.xeroRegions = {}
   /\ \E r \in call.regions : trim(RegionText[r]) # <<>>)
    => /\ call.result.errors = <<>>
       /\ call.result.status = "WARNING"
       /\ Len(issuesOfType(call.result, "NO_XERO_REGIONS")) = 1

\* C29: a built result is FAILED exactly when it has an error, WARNING exactly
\* when it has warnings and no error, and SUCCESS otherwise.
C29_StatusFollowsIssues ==
  call.op = "build" =>
    LET r == call.result
    IN /\ r.status = "FAILED" <=> r.errors # <<>>
       /\ r.status = "WARNING" <=> (r.warnings # <<>> /\ r.errors = <<>>)
       /\ r.status = "SUCCESS" <=> (r.warnings = <<>> /\ r.errors = <<>>)


\* C22: in every server time zone the week key of an entry date is the Monday
\* of the date's week (day 0 is a Monday): the date itself on a Monday, six
\* days earlier on a Sunday.
C22_WeekKeyIsMonday ==
  call.op = "getWeekStart" =>
    call.result = call.entry_date - (call.entry_date % 7)


\* C23: in a run without a confirmations mapping, a name is adopted for the
\* ledger (the wrapper returns a match, which is what the row handlers write
\* entries under) only if its best match scored at least 95, whatever the
\* thresholds in force are.
C23_SilentAdoptionNeeds95 ==
  (call.op = "validateAndMatchEmployee" /\ call.result.match # null)
    => call.result.score >= AutoAcceptScore

\* the matcher configuration that the settings in force ask for
configUnder(obj) ==
  [FuzzyMatchConfig EXCEPT
     !.cutoff = obj.validation.fuzzyMatchThresholds.low,
     !.max_suggestions = obj.validation.maxSuggestions]

\* C26: after a settings update that succeeded, a match uses the new
\* thresholds and algorithms, cuts its suggestions at thresholds.low and
\* limits their number to maxSuggestions.
C26_MatchUsesLiveSettings ==
  (call.op = "validateEmployee" /\ settingsReply # NoCall /\ settingsReply.result)
    => call.result = findMatches(call.input, call.known, configUnder(settings),
                                 settings.validation.fuzzyMatchThresholds,
                                 settings.validation.enabledAlgorithms)

\* C28: after an update carrying xero.regionMapping = m reported success,
\* reading xero.regionMapping returns m.
C28_RegionMappingReadBack ==
  (/\ call.op = "getSetting"
   /\ call.path = "xero.regionMapping"
   /\ settingsReply.op = "updateSettings"
   /\ settingsReply.result
   /\ "xero.regionMapping" \in DOMAIN settingsReply.body)
    => call.result = Defined(settingsReply.body["xero.regionMapping"])

\* C30: DefaultSettings never changes; after updateSetting returned false
\* every setting reads as before the call; after resetSettings the settings
\* are the original defaults.
C30_FailedUpdateLeavesSettings ==
  /\ defaultSettings = InitialSettings
  /\ (settingsReply.op = "updateSetting" /\ ~settingsReply.result)
       => settings = settingsReply.before
  /\ settingsReply.op = "resetSettings" => settings = InitialSettings


\* C27: handleCallback exchanges the authorization code only under a state
\* value that generateAuthUrl issued, that has not expired and that no
\* exchange was started under before; never under a missing, unknown,
\* expired or reused state.
C27_ExchangeNeedsFreshState ==
  (call.op = "handleCallback" /\ call.exchanged)
    => (call.issued /\ ~call.expired /\ ~call.used)


\* C25: of the requests that carry the same three files with the duplicate
\* check enabled, once one has been answered with its stored result every
\* other one that has been answered got the duplicate response.
C25_OneStoredPerUpload ==
  \A i \in DOMAIN requests, j \in DOMAIN requests :
    (/\ i # j
     /\ requests[i].hash = requests[j].hash
     /\ ~requests[i].skip /\ ~requests[j].skip
     /\ requests[i].response = "stored"
     /\ requests[j].pc = "done")
      => requests[j].response = "duplicate"


\* the entries of a ledger, each with the name it is kept under
ledgerEntries(ledger) ==
  UNION {{<<n, e>> : e \in Range(ledger[n])} : n \in DOMAIN ledger}

\* C24: for a batch in which no name asks for confirmation, the confirmation
\* pass with an empty mapping stores the same ledger as the direct pass: the
\* same names, and under each name the same entries with the same rates.
C24_PassesAgree ==
  (/\ call.op = "passes"
   /\ ~call.direct.asked /\ ~call.confirm.asked
   /\ call.direct.status = "ok")
    => /\ call.confirm.status = "ok"
       /\ DOMAIN call.confirm.ledger = DOMAIN call.direct.ledger
       /\ ledgerEntries(call.confirm.ledger) = ledgerEntries(call.direct.ledger)

====
